---- MODULE Spec2Model ----
(***************************************************************************)
(* A model of the fbx_load decoding engine.                                *)
(*                                                                         *)
(*   - the node traversal protocol (NodeLoader::load, ignore_current_node) *)
(*     driven by an external event reader, with the loaders of the scene,  *)
(*     the definitions, the generic properties and the objects;            *)
(*   - the mesh triangulation and layer element remapping;                 *)
(*   - the reference triangulator for single polygons;                     *)
(*   - the property default resolution.                                    *)
(*                                                                         *)
(* The event reader (crate fbx_binary_reader) is an external collaborator: *)
(* it is modelled as an environment that produces one event per call of    *)
(* next() and keeps the true nesting depth of the stream it produces.      *)
(***************************************************************************)
EXTENDS Integers, Sequences, FiniteSets, TLC

VARIABLES
    rdepth,     \* reader: number of nodes of the stream that are open
    nnodes,     \* reader: number of nodes opened so far
    rstatus,    \* reader: "open", "ended" (EndFbx at depth 0), "truncated"
    stack,      \* the call stack of loaders (NodeLoader::load activations
                \* and ignore_current_node activations), innermost last
    scene,      \* what the outermost load returned to its caller
    result,     \* outcome of the outermost load: "running", "Ok", "Err", "Panic"
    ret,        \* the most recent return of a load or an ignore_current_node
    mesh,       \* the Mesh that Mesh::triangulate is called on
    before,     \* the mesh as it was before the latest call of triangulate
    tri,        \* the latest call of triangulate and its TriangulationInfo
    quad,       \* a call of utils::triangulate_polygon: arguments and result
    lookup,     \* a call of get_or_default: arguments and result
    identity,   \* a call of ObjectProperties::from_node_properties
    pflags,     \* a PropertyFlags value and the calls that made it
    pnode       \* a call of PropertyNodeLoader::new

decodeVars == <<rdepth, nnodes, rstatus, stack, scene, result, ret>>

\* The state of the calls that are made on decoded data, outside a decode.
dataVars == <<mesh, before, tri, quad, lookup, identity, pflags, pnode>>

vars == <<rdepth, nnodes, rstatus, stack, scene, result, ret,
          mesh, before, tri, quad, lookup, identity, pflags, pnode>>

-----------------------------------------------------------------------------
(* Bounds of the model.                                                    *)

\* Largest number of nodes in the stream the reader produces.
MaxNodes == 5
\* Object ids are 1..MaxId.
MaxId == 1

-----------------------------------------------------------------------------
(* Option values.                                                          *)

None == [some |-> FALSE]
Some(x) == [some |-> TRUE, v |-> x]

\* The empty map (HashMap / BTreeMap with no entry).
EmptyMap == <<>>
\* map.insert(k, v): a later insert under the same key overwrites.
Insert(m, k, v) == [x \in (DOMAIN m) \cup {k} |-> IF x = k THEN v ELSE m[x]]
\* map.get(k)
Get(m, k) == IF k \in DOMAIN m THEN Some(m[k]) ELSE None

-----------------------------------------------------------------------------
(* Property cells of a node (fbx_binary_reader::Property).  A cell has a   *)
(* type tag t, an array a of numbers (one number for a scalar) and a       *)
(* string s.  A string is a sequence of segments: a segment is a piece of  *)
(* text or one of the two bytes NUL and SOH.                               *)

NUL == "NUL"
SOH == "SOH"
\* A string literal without NUL/SOH bytes.
T(text) == <<text>>

I16(n) == [t |-> "I16", a |-> <<n>>, s |-> <<>>]
I32(n) == [t |-> "I32", a |-> <<n>>, s |-> <<>>]
I64(n) == [t |-> "I64", a |-> <<n>>, s |-> <<>>]
F32(n) == [t |-> "F32", a |-> <<n>>, s |-> <<>>]
F64(n) == [t |-> "F64", a |-> <<n>>, s |-> <<>>]
Bool(n) == [t |-> "Bool", a |-> <<n>>, s |-> <<>>]
Str(segs) == [t |-> "Str", a |-> <<>>, s |-> segs]
Bin(bytes) == [t |-> "Bin", a |-> <<>>, s |-> bytes]

\* properties.iter().nth(i-1).and_then(|p| p.get_X()): the exact-type getters.
get_i64(props, i) ==
    IF Len(props) >= i /\ props[i].t = "I64" THEN Some(props[i].a[1]) ELSE None
get_i32(props, i) ==
    IF Len(props) >= i /\ props[i].t = "I32" THEN Some(props[i].a[1]) ELSE None
get_string(props, i) ==
    IF Len(props) >= i /\ props[i].t = "Str" THEN Some(props[i].s) ELSE None
get_binary(props, i) ==
    IF Len(props) >= i /\ props[i].t = "Bin" THEN Some(props[i].s) ELSE None
get_bool(props, i) ==
    IF Len(props) >= i /\ props[i].t = "Bool" THEN Some(props[i].a[1] # 0) ELSE None
\* p.as_i64(): any integer width widens to i64.
IsInt(c) == c.t \in {"I16", "I32", "I64"}
as_i64(props, i) ==
    IF Len(props) >= i /\ IsInt(props[i]) THEN Some(props[i].a[1]) ELSE None
\* p.as_f64(): any float width widens to f64.
as_f64(props, i) ==
    IF Len(props) >= i /\ props[i].t \in {"F32", "F64"} THEN Some(props[i].a[1]) ELSE None

\* Array cells.
VecI32(arr) == [t |-> "VecI32", a |-> arr, s |-> <<>>]
VecF32(arr) == [t |-> "VecF32", a |-> arr, s |-> <<>>]
VecF64(arr) == [t |-> "VecF64", a |-> arr, s |-> <<>>]
\* p.extract_vec_i32().ok() / p.get_vec_i32(): an array of i32 only.
extract_vec_i32(props, i) ==
    IF Len(props) >= i /\ props[i].t = "VecI32" THEN Some(props[i].a) ELSE None
\* p.as_vec_f32() / p.into_vec_f32().ok(): an array of either float width.
as_vec_f32(props, i) ==
    IF Len(props) >= i /\ props[i].t \in {"VecF32", "VecF64"} THEN Some(props[i].a) ELSE None

\* vec.chunks(n).take(vec.len() / n): the complete groups of n elements.
Chunks(vec, n) ==
    [k \in 1..(Len(vec) \div n) |-> [j \in 1..n |-> vec[(k - 1) * n + j]]]
\* .into_iter().find(|vec| vec.len() > 0).map(chunks of n)
ChunksOf(opt, n) ==
    IF opt.some /\ Len(opt.v) > 0 THEN Some(Chunks(opt.v, n)) ELSE None
\* .into_iter().find(|v| v.len() >= 16).map(|v| 4x4 matrix of v[0..16])
Matrix4(opt) ==
    IF opt.some /\ Len(opt.v) >= 16 THEN Some(Chunks(SubSeq(opt.v, 1, 16), 4)) ELSE None

-----------------------------------------------------------------------------
(* Object identity.                                                        *)

\* Positions i at which the two-byte separator NUL,SOH starts.
SepPositions(s) == {i \in 1..(Len(s) - 1) : s[i] = NUL /\ s[i + 1] = SOH}

Min(S) == CHOOSE x \in S : \A y \in S : x <= y

\* The mutant splits at the last separator instead of the first.
separate_name_class_last(name_class) ==
    IF SepPositions(name_class) = {} THEN None
    ELSE LET sep_pos == CHOOSE x \in SepPositions(name_class) :
                            \A y \in SepPositions(name_class) : y <= x
         IN Some([name  |-> SubSeq(name_class, 1, sep_pos - 1),
                  class |-> SubSeq(name_class, sep_pos + 2, Len(name_class))])

\* name_class.find("\u{0}\u{1}").map(|p| (&name_class[0..p], &name_class[p+2..]))
separate_name_class(name_class) ==
    IF SepPositions(name_class) = {} THEN None
    ELSE LET sep_pos == Min(SepPositions(name_class))
         IN Some([name  |-> SubSeq(name_class, 1, sep_pos - 1),
                  class |-> SubSeq(name_class, sep_pos + 2, Len(name_class))])

\* The mutant takes an absent subclass cell for the empty subclass.
ObjectProperties_from_node_properties_no_subclass(props) ==
    LET id == get_i64(props, 1)
        nc == get_string(props, 2)
        name_class == IF nc.some THEN separate_name_class(nc.v) ELSE None
        subclass == IF Len(props) >= 3 THEN get_string(props, 3) ELSE Some(T(""))
    IN IF id.some /\ name_class.some /\ subclass.some
       THEN Some([id |-> id.v, name |-> name_class.v.name,
                  class |-> name_class.v.class, subclass |-> subclass.v])
       ELSE None

\* ObjectProperties::from_node_properties
ObjectProperties_from_node_properties(props) ==
    LET id == get_i64(props, 1)
        nc == get_string(props, 2)
        name_class == IF nc.some THEN separate_name_class(nc.v) ELSE None
        subclass == get_string(props, 3)
    IN IF id.some /\ name_class.some /\ subclass.some
       THEN Some([id |-> id.v, name |-> name_class.v.name,
                  class |-> name_class.v.class, subclass |-> subclass.v])
       ELSE None

\* UnknownObject::from_object_properties
UnknownObject(obj_props) ==
    [id |-> obj_props.id, name |-> obj_props.name,
     class |-> obj_props.class, subclass |-> obj_props.subclass]

-----------------------------------------------------------------------------
(* Calls a handler makes on the reader, and results.                       *)

\* try!(ignore_current_node(reader))
Ignore == [op |-> "ignore"]
\* try!(Loader::new(..).load(reader)) for a loader of kind k with fields st
Load(k, st) == [op |-> "load", kind |-> k, st |-> st]
\* return Err(..): an unrecoverable error
Fail == [op |-> "err"]
\* unreachable!() / assert!: the thread panics
Panic == [op |-> "panic"]

Ok(v) == [ok |-> TRUE, v |-> v]
Err == [ok |-> FALSE]

-----------------------------------------------------------------------------
(* Properties70/P: PropertyNodeLoader.                                     *)

\* A PropertyNodeValue: tag, numbers a, string or bytes s.
PV(tag, a, s) == [tag |-> tag, a |-> a, s |-> s]

RECURSIVE ScanLen(_, _, _)
\* iter.scan((), |_, p| p.as_X()): number of cells from position i on that
\* coerce, up to the first one that does not.
ScanLen(props, i, tags) ==
    IF i > Len(props) \/ props[i].t \notin tags THEN 0
    ELSE 1 + ScanLen(props, i + 1, tags)

\* The numbers of the cells i..j.
Numbers(props, i, j) == [k \in 1..(j - i + 1) |-> props[i + k - 1].a[1]]

IntTags == {"I16", "I32", "I64"}
FloatTags == {"F32", "F64"}

\* The mutant reads one value cell only.
PropertyNodeValue_from_scalar(props, i) ==
    IF Len(props) < i THEN Some(PV("Empty", <<>>, <<>>))
    ELSE LET first_val == props[i]
         IN CASE first_val.t \in IntTags -> Some(PV("I64", first_val.a, <<>>))
              [] first_val.t = "F32" -> Some(PV("F32", first_val.a, <<>>))
              [] first_val.t = "F64" -> Some(PV("F64", first_val.a, <<>>))
              [] first_val.t = "Str" -> Some(PV("String", <<>>, first_val.s))
              [] OTHER -> None

\* The value of a non-Blob record, from the cells at position i and after;
\* a first cell of an unsupported type leaves the record without a value.
PropertyNodeValue_from(props, i) ==
    IF Len(props) < i THEN Some(PV("Empty", <<>>, <<>>))
    ELSE LET first_val == props[i]
             nInt == ScanLen(props, i + 1, IntTags)
             nFlt == ScanLen(props, i + 1, FloatTags)
         IN CASE first_val.t \in IntTags ->
                   IF nInt = 0 THEN Some(PV("I64", first_val.a, <<>>))
                   ELSE Some(PV("VecI64", Numbers(props, i, i + nInt), <<>>))
              [] first_val.t = "F32" ->
                   IF nFlt = 0 THEN Some(PV("F32", first_val.a, <<>>))
                   ELSE Some(PV("VecF32", Numbers(props, i, i + nFlt), <<>>))
              [] first_val.t = "F64" ->
                   IF nFlt = 0 THEN Some(PV("F64", first_val.a, <<>>))
                   ELSE Some(PV("VecF64", Numbers(props, i, i + nFlt), <<>>))
              [] first_val.t = "Str" -> Some(PV("String", <<>>, first_val.s))
              [] OTHER -> None

\* PropertyNodeLoader::new(iter), the iterator standing before cell i.
PropertyNodeLoader_new(props, i) ==
    LET type_name == get_string(props, i)
        label == get_string(props, i + 1)
        flags == get_string(props, i + 2)
    IN IF ~type_name.some \/ ~label.some \/ ~flags.some THEN None
       ELSE IF label.v = T("Blob")
       THEN IF get_i32(props, i + 3).some
            THEN Some([type_name |-> type_name.v, label |-> label.v,
                       flags |-> flags.v, value |-> Some(PV("Blob", <<>>, <<>>))])
            ELSE None
       ELSE Some([type_name |-> type_name.v, label |-> label.v, flags |-> flags.v,
                  value |-> PropertyNodeValue_from(props, i + 3)])

PropertyNodeLoader_on_child_node(st, name, props) ==
    IF st.type_name = T("Blob") /\ name = "BinaryData" /\ get_binary(props, 1).some
    THEN IF ~st.value.some THEN [st |-> st, call |-> Ignore]
         ELSE IF st.value.v.tag = "Blob"
         THEN [st |-> [st EXCEPT !.value =
                          Some(PV("Blob", <<>>, @.v.s \o get_binary(props, 1).v))],
               call |-> Ignore]
         ELSE [st |-> st, call |-> Panic]
    ELSE [st |-> st, call |-> Ignore]

PropertyNodeLoader_on_finish(st) ==
    Ok(IF st.value.some
       THEN Some([type_name |-> st.type_name, label |-> st.label,
                  flags |-> st.flags, value |-> st.value.v])
       ELSE None)

-----------------------------------------------------------------------------
(* Properties70: GenericPropertiesLoader.                                  *)

GenericPropertiesLoader_new == [properties |-> EmptyMap]

GenericPropertiesLoader_on_child_node(st, name, props) ==
    IF name = "P"
    THEN LET prop_name == get_string(props, 1)
             loader == PropertyNodeLoader_new(props, 2)
         IN IF prop_name.some /\ loader.some
            THEN [st |-> st,
                  call |-> Load("PropertyNode",
                                [type_name |-> loader.v.type_name,
                                 label |-> loader.v.label,
                                 flags |-> loader.v.flags,
                                 value |-> loader.v.value,
                                 prop_name |-> prop_name.v])]
            ELSE [st |-> st, call |-> Ignore]
    ELSE [st |-> st, call |-> Ignore]

\* The mutant keeps the record a name already has.
GenericPropertiesLoader_resume_keep_first(st, child, val) ==
    IF val.v.some /\ child.st.prop_name \notin DOMAIN st.properties
    THEN [st EXCEPT !.properties = Insert(@, child.st.prop_name, val.v.v)]
    ELSE st

\* if let Some(prop_node) = try!(loader.load(reader)) { insert(prop_name, ..) }
GenericPropertiesLoader_resume(st, child, val) ==
    IF val.v.some
    THEN [st EXCEPT !.properties = Insert(@, child.st.prop_name, val.v.v)]
    ELSE st

GenericPropertiesLoader_on_finish(st) == Ok(st.properties)

-----------------------------------------------------------------------------
(* Definitions, ObjectType and PropertyTemplate.                           *)

PropertyTemplateLoader_on_child_node(st, name, props) ==
    IF name = "Properties70"
    THEN [st |-> st, call |-> Load("GenericProperties", GenericPropertiesLoader_new)]
    ELSE [st |-> st, call |-> Ignore]

PropertyTemplateLoader_resume(st, child, val) ==
    [st EXCEPT !.properties = Some(val.v)]

\* properties.unwrap_or_default()
PropertyTemplateLoader_on_finish(st) ==
    Ok(IF st.properties.some THEN st.properties.v ELSE EmptyMap)

\* The loader borrows the templates of the DefinitionsLoader (&mut) and gives
\* them back when it returns.
PropertyTemplatesLoader_on_child_node(st, name, props) ==
    IF name = "PropertyTemplate" /\ get_string(props, 1).some
    THEN [st |-> st,
          call |-> Load("PropertyTemplate",
                        [properties |-> None,
                         template_name |-> get_string(props, 1).v])]
    ELSE [st |-> st, call |-> Ignore]

PropertyTemplatesLoader_resume(st, child, val) ==
    [st EXCEPT !.templates =
        Insert(@, <<st.object_type, child.st.template_name>>, val.v)]

PropertyTemplatesLoader_on_finish(st) == Ok(<<>>)

DefinitionsLoader_new == [templates |-> EmptyMap]

DefinitionsLoader_on_child_node(st, name, props) ==
    IF name = "ObjectType" /\ get_string(props, 1).some
    THEN [st |-> st,
          call |-> Load("PropertyTemplates",
                        [templates |-> st.templates,
                         object_type |-> get_string(props, 1).v])]
    ELSE [st |-> st, call |-> Ignore]

DefinitionsLoader_resume(st, child, val) ==
    [st EXCEPT !.templates = child.st.templates]

DefinitionsLoader_on_finish(st) == Ok(st.templates)

-----------------------------------------------------------------------------
(* FBXHeaderExtension and Connections.                                     *)

FbxHeaderExtensionLoader_on_child_node(st, name, props) ==
    [st |-> st, call |-> Ignore]

FbxHeaderExtensionLoader_on_finish(st) == Ok("FbxHeaderExtension")

ConnectionTypes == {T("OO"), T("OP"), T("PO"), T("PP")}

\* The mutant reads the two letters of the type the other way round.
Connection_from_node_properties_swapped(props) ==
    LET ty == get_string(props, 1)
        child == get_i64(props, 2)
        parent == get_i64(props, 3)
        attr_name == get_string(props, 4)
    IN IF ty.some /\ ty.v \in {T("OO"), T("OP"), T("PO"), T("PP")} /\ child.some /\ parent.some
       THEN Some([parent |-> parent.v, child |-> child.v,
                  attribute |-> attr_name,
                  parent_is_property |-> ty.v \in {T("PO"), T("PP")},
                  child_is_property |-> ty.v \in {T("OP"), T("PP")}])
       ELSE None

\* Connection::from_node_properties
Connection_from_node_properties(props) ==
    LET ty == get_string(props, 1)
        child == get_i64(props, 2)
        parent == get_i64(props, 3)
        attr_name == get_string(props, 4)
    IN IF ty.some /\ ty.v \in ConnectionTypes /\ child.some /\ parent.some
       THEN Some([parent |-> parent.v, child |-> child.v,
                  attribute |-> attr_name,
                  parent_is_property |-> ty.v \in {T("OP"), T("PP")},
                  child_is_property |-> ty.v \in {T("PO"), T("PP")}])
       ELSE None

ConnectionsLoader_new == [connections |-> <<>>]

ConnectionsLoader_on_child_node(st, name, props) ==
    IF name = "C" /\ Connection_from_node_properties(props).some
    THEN [st |-> [st EXCEPT !.connections =
                     Append(@, Connection_from_node_properties(props).v)],
          call |-> Ignore]
    ELSE [st |-> st, call |-> Ignore]

ConnectionsLoader_on_finish(st) == Ok(st.connections)

-----------------------------------------------------------------------------
(* Values of property records and the default resolution.                  *)

PropertyNodeValue_get_i64(value) ==
    IF value.tag = "I64" THEN Some(value.a[1]) ELSE None
PropertyNodeValue_get_f64(value) ==
    IF value.tag \in {"F32", "F64"} THEN Some(value.a[1]) ELSE None
PropertyNodeValue_get_string(value) ==
    IF value.tag = "String" THEN Some(value.s) ELSE None
PropertyNodeValue_get_vec_f32(value) ==
    IF value.tag \in {"VecF32", "VecF64"} THEN Some(value.a) ELSE None

\* The mutant prefers the template default to the instance value.
get_or_default_template_first(properties, defaults, key) ==
    IF defaults.some /\ key \in DOMAIN defaults.v THEN Some(defaults.v[key])
    ELSE IF properties.some /\ key \in DOMAIN properties.v THEN Some(properties.v[key])
    ELSE None

\* OptionalProperties::get_or_default: the record of the instance map if it
\* has the key, else the record of the template defaults if they have the
\* key, else nothing.
get_or_default(properties, defaults, key) ==
    IF properties.some /\ key \in DOMAIN properties.v THEN Some(properties.v[key])
    ELSE IF defaults.some /\ key \in DOMAIN defaults.v THEN Some(defaults.v[key])
    ELSE None

\* opt.and_then(|p| p.value.get_X())
AndThenI64(p) == IF p.some THEN PropertyNodeValue_get_i64(p.v.value) ELSE None
AndThenF64(p) == IF p.some THEN PropertyNodeValue_get_f64(p.v.value) ELSE None
AndThenString(p) == IF p.some THEN PropertyNodeValue_get_string(p.v.value) ELSE None
\* .and_then(|p| p.value.get_vec_f32().into_iter().find(|v| v.len() >= 3).map(|v| [v[0], v[1], v[2]]))
AndThenColor(p) ==
    IF p.some /\ PropertyNodeValue_get_vec_f32(p.v.value).some
       /\ Len(PropertyNodeValue_get_vec_f32(p.v.value).v) >= 3
    THEN Some(SubSeq(PropertyNodeValue_get_vec_f32(p.v.value).v, 1, 3))
    ELSE None
\* opt.map(|v| v != 0)
NonZero(opt) == IF opt.some THEN Some(opt.v # 0) ELSE None
\* opt.and_then(X::from_i64) for an enumeration with the values 0..max
FromI64(opt, max) == IF opt.some /\ opt.v \in 0..max THEN Some(opt.v) ELSE None

\* definitions.templates.templates.get(&(object_type, template_name)).map(|t| &t.properties)
Defaults(definitions, object_type, template_name) ==
    Get(definitions, <<T(object_type), T(template_name)>>)

-----------------------------------------------------------------------------
(* /Objects/Texture                                                        *)

TextureLoader_new(obj_props) ==
    [obj_props |-> obj_props, properties |-> None, media |-> None,
     filename |-> None, relative_filename |-> None]

\* The mutant does not require the relative file name.
TextureLoader_on_finish_lenient(st, definitions) ==
    LET defaults == Defaults(definitions, "Texture", "FbxFileTexture")
        current_texture_blend_mode ==
            FromI64(AndThenI64(get_or_default(st.properties, defaults, T("CurrentTextureBlendMode"))), 4)
        premultiply_alpha ==
            NonZero(AndThenI64(get_or_default(st.properties, defaults, T("PremultiplyAlpha"))))
        uv_set == AndThenString(get_or_default(st.properties, defaults, T("UVSet")))
        wrap_mode_u == FromI64(AndThenI64(get_or_default(st.properties, defaults, T("WrapModeU"))), 1)
        wrap_mode_v == FromI64(AndThenI64(get_or_default(st.properties, defaults, T("WrapModeV"))), 1)
    IN IF current_texture_blend_mode.some /\ premultiply_alpha.some /\ uv_set.some
          /\ wrap_mode_u.some /\ wrap_mode_v.some /\ st.filename.some
       THEN Ok(Some([id |-> st.obj_props.id, name |-> st.obj_props.name,
                     media |-> st.media, filename |-> st.filename.v,
                     relative_filename |->
                         IF st.relative_filename.some THEN st.relative_filename.v ELSE <<>>,
                     current_texture_blend_mode |-> current_texture_blend_mode.v,
                     premultiply_alpha |-> premultiply_alpha.v,
                     uv_set |-> uv_set.v,
                     wrap_mode_u |-> wrap_mode_u.v, wrap_mode_v |-> wrap_mode_v.v]))
       ELSE Ok(None)

TextureLoader_on_finish(st, definitions) ==
    LET defaults == Defaults(definitions, "Texture", "FbxFileTexture")
        current_texture_blend_mode ==
            FromI64(AndThenI64(get_or_default(st.properties, defaults, T("CurrentTextureBlendMode"))), 4)
        premultiply_alpha ==
            NonZero(AndThenI64(get_or_default(st.properties, defaults, T("PremultiplyAlpha"))))
        uv_set == AndThenString(get_or_default(st.properties, defaults, T("UVSet")))
        wrap_mode_u == FromI64(AndThenI64(get_or_default(st.properties, defaults, T("WrapModeU"))), 1)
        wrap_mode_v == FromI64(AndThenI64(get_or_default(st.properties, defaults, T("WrapModeV"))), 1)
    IN IF current_texture_blend_mode.some /\ premultiply_alpha.some /\ uv_set.some
          /\ wrap_mode_u.some /\ wrap_mode_v.some /\ st.filename.some
          /\ st.relative_filename.some
       THEN Ok(Some([id |-> st.obj_props.id, name |-> st.obj_props.name,
                     media |-> st.media, filename |-> st.filename.v,
                     relative_filename |-> st.relative_filename.v,
                     current_texture_blend_mode |-> current_texture_blend_mode.v,
                     premultiply_alpha |-> premultiply_alpha.v,
                     uv_set |-> uv_set.v,
                     wrap_mode_u |-> wrap_mode_u.v, wrap_mode_v |-> wrap_mode_v.v]))
       ELSE Ok(None)

\* .and_then(|p| p.get_string()).and_then(separate_name_class).map(|(name, _)| name)
MediaName(props) ==
    IF get_string(props, 1).some /\ separate_name_class(get_string(props, 1).v).some
    THEN Some(separate_name_class(get_string(props, 1).v).v.name)
    ELSE None

\* The mutant refuses a Texture whose Version is not 202.
TextureLoader_on_child_node_strict(st, name, props) ==
    CASE name = "Media" ->
           [st |-> [st EXCEPT !.media = MediaName(props)], call |-> Ignore]
      [] name = "FileName" ->
           [st |-> [st EXCEPT !.filename = get_string(props, 1)], call |-> Ignore]
      [] name = "RelativeFilename" ->
           [st |-> [st EXCEPT !.relative_filename = get_string(props, 1)], call |-> Ignore]
      [] name = "Properties70" ->
           [st |-> st, call |-> Load("GenericProperties", GenericPropertiesLoader_new)]
      [] name = "Version" /\ get_i32(props, 1) # Some(202) -> [st |-> st, call |-> Fail]
      [] OTHER -> [st |-> st, call |-> Ignore]

TextureLoader_on_child_node(st, name, props) ==
    CASE name = "Media" ->
           [st |-> [st EXCEPT !.media = MediaName(props)], call |-> Ignore]
      [] name = "FileName" ->
           [st |-> [st EXCEPT !.filename = get_string(props, 1)], call |-> Ignore]
      [] name = "RelativeFilename" ->
           [st |-> [st EXCEPT !.relative_filename = get_string(props, 1)], call |-> Ignore]
      [] name = "Properties70" ->
           [st |-> st, call |-> Load("GenericProperties", GenericPropertiesLoader_new)]
      [] OTHER -> [st |-> st, call |-> Ignore]

\* self.properties = Some(try!(GenericPropertiesLoader::new(70).load(reader)))
SetProperties(st, val) == [st EXCEPT !.properties = Some(val.v)]

-----------------------------------------------------------------------------
(* /Objects/Model                                                          *)

ModelLoader_new(obj_props) ==
    [obj_props |-> obj_props, properties |-> None, shading |-> None, culling |-> None]

CullingTypes == {T("CullingOff"), T("CullingOnCCW"), T("CullingOnCW")}

ModelLoader_on_finish(st, definitions) ==
    LET defaults == Defaults(definitions, "Model", "FbxNode")
        axis_len == AndThenF64(get_or_default(st.properties, defaults, T("AxisLen")))
        show == NonZero(AndThenI64(get_or_default(st.properties, defaults, T("Show"))))
        inherit_type == FromI64(AndThenI64(get_or_default(st.properties, defaults, T("InheritType"))), 2)
    IN IF st.shading.some /\ st.culling.some /\ axis_len.some /\ show.some
          /\ inherit_type.some
       THEN Ok(Some([id |-> st.obj_props.id, name |-> st.obj_props.name,
                     shading |-> st.shading.v, culling |-> st.culling.v,
                     axis_len |-> axis_len.v, show |-> show.v,
                     inherit_type |-> inherit_type.v]))
       ELSE Ok(None)

ModelLoader_on_child_node(st, name, props) ==
    CASE name = "Shading" ->
           [st |-> [st EXCEPT !.shading = get_bool(props, 1)], call |-> Ignore]
      [] name = "Culling" ->
           [st |-> [st EXCEPT !.culling =
                       IF get_string(props, 1).some /\ get_string(props, 1).v \in CullingTypes
                       THEN get_string(props, 1) ELSE None],
            call |-> Ignore]
      [] name = "Properties70" ->
           [st |-> st, call |-> Load("GenericProperties", GenericPropertiesLoader_new)]
      [] OTHER -> [st |-> st, call |-> Ignore]

-----------------------------------------------------------------------------
(* /Objects/Material                                                       *)

MaterialLoader_new(obj_props) ==
    [obj_props |-> obj_props, properties |-> None, shading_model |-> None,
     multi_layer |-> None]

\* ShadingParameters::from_node_properties: the variant chosen by the shading
\* model (the parameter values are read by the same default resolution).
ShadingParameters_from_node_properties(shading_model) ==
    CASE shading_model = T("lambert") -> "Lambert"
      [] shading_model = T("phong") -> "Phong"
      [] OTHER -> "Unknown"

MaterialLoader_on_finish(st, definitions) ==
    IF st.shading_model.some /\ st.multi_layer.some
    THEN Ok(Some([id |-> st.obj_props.id, name |-> st.obj_props.name,
                  shading_model |-> st.shading_model.v,
                  multi_layer |-> st.multi_layer.v,
                  shading_parameters |->
                      ShadingParameters_from_node_properties(st.shading_model.v)]))
    ELSE Ok(None)

MaterialLoader_on_child_node(st, name, props) ==
    CASE name = "ShadingModel" ->
           [st |-> [st EXCEPT !.shading_model = get_string(props, 1)], call |-> Ignore]
      [] name = "MultiLayer" ->
           [st |-> [st EXCEPT !.multi_layer = NonZero(as_i64(props, 1))], call |-> Ignore]
      [] name = "Properties70" ->
           [st |-> st, call |-> Load("GenericProperties", GenericPropertiesLoader_new)]
      [] OTHER -> [st |-> st, call |-> Ignore]

-----------------------------------------------------------------------------
(* /Objects/Video                                                          *)

VideoLoader_new(obj_props) ==
    [obj_props |-> obj_props, properties |-> None, use_mip_map |-> None,
     filename |-> None, relative_filename |-> None, content |-> None]

VideoLoader_on_finish(st, definitions) ==
    LET defaults == Defaults(definitions, "Video", "FbxVideo")
        path == AndThenString(get_or_default(st.properties, defaults, T("Path")))
    IN IF path.some /\ st.use_mip_map.some /\ st.filename.some
          /\ st.relative_filename.some
       THEN Ok(Some([id |-> st.obj_props.id, name |-> st.obj_props.name,
                     path |-> path.v, use_mip_map |-> st.use_mip_map.v,
                     filename |-> st.filename.v,
                     relative_filename |-> st.relative_filename.v,
                     content |-> st.content]))
       ELSE Ok(None)

\* converter.binary_to_image(v, filename): the injected converter sees the
\* bytes and the file name.
binary_to_image(binary, filename) == [binary |-> binary, path |-> filename]

\* The mutant hands the bytes to the converter whether or not a file name
\* has been read.
VideoLoader_on_child_node_eager(st, name, props) ==
    CASE name = "UseMipMap" ->
           [st |-> [st EXCEPT !.use_mip_map = NonZero(get_i32(props, 1))], call |-> Ignore]
      [] name = "Filename" ->
           [st |-> [st EXCEPT !.filename = get_string(props, 1)], call |-> Ignore]
      [] name = "RelativeFilename" ->
           [st |-> [st EXCEPT !.relative_filename = get_string(props, 1)], call |-> Ignore]
      [] name = "Content" ->
           [st |-> [st EXCEPT !.content =
                       IF get_binary(props, 1).some
                       THEN Some(binary_to_image(get_binary(props, 1).v,
                                                 IF st.filename.some THEN st.filename.v ELSE <<>>))
                       ELSE None],
            call |-> Ignore]
      [] name = "Properties70" ->
           [st |-> st, call |-> Load("GenericProperties", GenericPropertiesLoader_new)]
      [] OTHER -> [st |-> st, call |-> Ignore]

VideoLoader_on_child_node(st, name, props) ==
    CASE name = "UseMipMap" ->
           [st |-> [st EXCEPT !.use_mip_map = NonZero(get_i32(props, 1))], call |-> Ignore]
      [] name = "Filename" ->
           [st |-> [st EXCEPT !.filename = get_string(props, 1)], call |-> Ignore]
      [] name = "RelativeFilename" ->
           [st |-> [st EXCEPT !.relative_filename = get_string(props, 1)], call |-> Ignore]
      [] name = "Content" ->
           [st |-> IF st.filename.some
                   THEN [st EXCEPT !.content =
                            IF get_binary(props, 1).some
                            THEN Some(binary_to_image(get_binary(props, 1).v, st.filename.v))
                            ELSE None]
                   ELSE st,
            call |-> Ignore]
      [] name = "Properties70" ->
           [st |-> st, call |-> Load("GenericProperties", GenericPropertiesLoader_new)]
      [] OTHER -> [st |-> st, call |-> Ignore]

-----------------------------------------------------------------------------
(* /Objects/Pose and /Objects/Pose/PoseNode                                *)

PoseLoader_new(obj_props) ==
    [obj_props |-> obj_props, nb_pose_nodes |-> None, pose_nodes |-> None]

\* The mutant drops a Pose whose count of pose nodes is not the declared one.
PoseLoader_on_finish_strict(st, definitions) ==
    IF ~st.nb_pose_nodes.some THEN Ok(None)
    ELSE IF st.pose_nodes.some /\ Len(st.pose_nodes.v) = st.nb_pose_nodes.v
    THEN Ok(Some([id |-> st.obj_props.id, name |-> st.obj_props.name,
                  pose_nodes |-> st.pose_nodes.v]))
    ELSE Ok(None)

PoseLoader_on_finish(st, definitions) ==
    IF ~st.nb_pose_nodes.some THEN Ok(None)
    ELSE IF st.pose_nodes.some
    THEN Ok(Some([id |-> st.obj_props.id, name |-> st.obj_props.name,
                  pose_nodes |-> st.pose_nodes.v]))
    ELSE Ok(None)

PoseNodeLoader_new == [node |-> None, matrix |-> None]

\* The mutant lets every valid NbPoseNodes child declare the count anew.
PoseLoader_on_child_node_redeclare(st, name, props) ==
    CASE name = "NbPoseNodes" ->
           [st |-> IF get_i32(props, 1).some /\ get_i32(props, 1).v >= 0
                   THEN [st EXCEPT !.nb_pose_nodes = get_i32(props, 1),
                                   !.pose_nodes = Some(<<>>)]
                   ELSE st,
            call |-> Ignore]
      [] name = "PoseNode" ->
           IF st.pose_nodes.some
           THEN [st |-> st, call |-> Load("PoseNode", PoseNodeLoader_new)]
           ELSE [st |-> st, call |-> Ignore]
      [] OTHER -> [st |-> st, call |-> Ignore]

PoseLoader_on_child_node(st, name, props) ==
    CASE name = "NbPoseNodes" ->
           [st |-> IF ~st.nb_pose_nodes.some /\ get_i32(props, 1).some
                      /\ get_i32(props, 1).v >= 0
                   THEN [st EXCEPT !.nb_pose_nodes = get_i32(props, 1),
                                   !.pose_nodes = Some(<<>>)]
                   ELSE st,
            call |-> Ignore]
      [] name = "PoseNode" ->
           IF st.pose_nodes.some
           THEN [st |-> st, call |-> Load("PoseNode", PoseNodeLoader_new)]
           ELSE [st |-> st, call |-> Ignore]
      [] OTHER -> [st |-> st, call |-> Ignore]

\* if let Some(pose_node) = try!(PoseNodeLoader::new().load(reader)) { push }
PoseLoader_resume(st, val) ==
    IF val.v.some
    THEN [st EXCEPT !.pose_nodes = Some(Append(@.v, val.v.v))]
    ELSE st

PoseNodeLoader_on_finish(st) ==
    IF st.node.some /\ st.matrix.some
    THEN Ok(Some([node |-> st.node.v, matrix |-> st.matrix.v]))
    ELSE Ok(None)

PoseNodeLoader_on_child_node(st, name, props) ==
    CASE name = "Node" ->
           [st |-> [st EXCEPT !.node = get_i64(props, 1)], call |-> Ignore]
      [] name = "Matrix" ->
           [st |-> [st EXCEPT !.matrix = Matrix4(as_vec_f32(props, 1))], call |-> Ignore]
      [] OTHER -> [st |-> st, call |-> Ignore]

-----------------------------------------------------------------------------
(* /Objects/Deformer: BlendShape, Skin, Cluster, BlendShapeChannel         *)

BlendShapeLoader_new(obj_props) == [obj_props |-> obj_props]

BlendShapeLoader_on_finish(st) ==
    Ok(Some([id |-> st.obj_props.id, name |-> st.obj_props.name]))

BlendShapeLoader_on_child_node(st, name, props) == [st |-> st, call |-> Ignore]

SkinLoader_new(obj_props) ==
    [obj_props |-> obj_props, link_deform_accuracy |-> None, skinning_type |-> None]

SkinningTypes == {T("Rigid"), T("Linear"), T("DualQuaternion"), T("Blend")}

SkinLoader_on_finish(st) ==
    IF st.link_deform_accuracy.some /\ st.skinning_type.some
    THEN Ok(Some([id |-> st.obj_props.id,
                  link_deform_accuracy |-> st.link_deform_accuracy.v,
                  skinning_type |-> st.skinning_type.v]))
    ELSE Ok(None)

SkinLoader_on_child_node(st, name, props) ==
    CASE name = "Link_DeformAcuracy" ->
           [st |-> [st EXCEPT !.link_deform_accuracy = as_f64(props, 1)], call |-> Ignore]
      [] name = "SkinningType" ->
           [st |-> [st EXCEPT !.skinning_type =
                       IF get_string(props, 1).some /\ get_string(props, 1).v \in SkinningTypes
                       THEN get_string(props, 1) ELSE None],
            call |-> Ignore]
      [] OTHER -> [st |-> st, call |-> Ignore]

ClusterLoader_new(obj_props) ==
    [obj_props |-> obj_props, user_data |-> None, indices |-> None,
     weights |-> None, transform |-> None, transform_link |-> None]

\* opt.as_ref().map(|v| v.len())
MapLen(opt) == IF opt.some THEN Some(Len(opt.v)) ELSE None
\* opt.unwrap_or_default() for a vector
UnwrapOrEmpty(opt) == IF opt.some THEN opt.v ELSE <<>>

\* The mutant does not compare the lengths of the two arrays.
ClusterLoader_on_finish_unchecked(st) ==
    IF st.user_data.some /\ st.transform.some /\ st.transform_link.some
    THEN Ok(Some([id |-> st.obj_props.id,
                  user_id |-> st.user_data.v[1], user_data |-> st.user_data.v[2],
                  indices |-> UnwrapOrEmpty(st.indices),
                  weights |-> UnwrapOrEmpty(st.weights),
                  transform |-> st.transform.v,
                  transform_link |-> st.transform_link.v]))
    ELSE Ok(None)

ClusterLoader_on_finish(st) ==
    IF MapLen(st.indices) # MapLen(st.weights) THEN Ok(None)
    ELSE IF st.user_data.some /\ st.transform.some /\ st.transform_link.some
    THEN Ok(Some([id |-> st.obj_props.id,
                  user_id |-> st.user_data.v[1], user_data |-> st.user_data.v[2],
                  indices |-> UnwrapOrEmpty(st.indices),
                  weights |-> UnwrapOrEmpty(st.weights),
                  transform |-> st.transform.v,
                  transform_link |-> st.transform_link.v]))
    ELSE Ok(None)

ClusterLoader_on_child_node(st, name, props) ==
    CASE name = "UserData" ->
           [st |-> IF get_string(props, 1).some /\ get_string(props, 2).some
                   THEN [st EXCEPT !.user_data =
                            Some(<<get_string(props, 1).v, get_string(props, 2).v>>)]
                   ELSE st,
            call |-> Ignore]
      [] name = "Indexes" ->
           [st |-> [st EXCEPT !.indices = extract_vec_i32(props, 1)], call |-> Ignore]
      [] name = "Weights" ->
           [st |-> [st EXCEPT !.weights = as_vec_f32(props, 1)], call |-> Ignore]
      [] name = "Transform" ->
           [st |-> [st EXCEPT !.transform = Matrix4(as_vec_f32(props, 1))], call |-> Ignore]
      [] name = "TransformLink" ->
           [st |-> [st EXCEPT !.transform_link = Matrix4(as_vec_f32(props, 1))], call |-> Ignore]
      [] OTHER -> [st |-> st, call |-> Ignore]

BlendShapeChannelLoader_new(obj_props) ==
    [obj_props |-> obj_props, deform_percent |-> None, full_weights |-> None]

BlendShapeChannelLoader_on_finish(st) ==
    IF st.full_weights.some
    THEN Ok(Some([id |-> st.obj_props.id,
                  deform_percent |-> IF st.deform_percent.some
                                     THEN st.deform_percent.v ELSE 0,
                  full_weights |-> st.full_weights.v]))
    ELSE Ok(None)

BlendShapeChannelLoader_on_child_node(st, name, props) ==
    CASE name = "DeformPercent" ->
           [st |-> [st EXCEPT !.deform_percent = as_f64(props, 1)], call |-> Ignore]
      [] name = "FullWeights" ->
           [st |-> [st EXCEPT !.full_weights = as_vec_f32(props, 1)], call |-> Ignore]
      [] OTHER -> [st |-> st, call |-> Ignore]

\* The Unknown variant of a class-level loader: it keeps the identity.
UnknownLoader_new(obj_props) == [obj_props |-> obj_props]

\* XLoader::Unknown(obj_props) => Some(X::Unknown(UnknownObject::from_object_properties(obj_props)))
UnknownLoader_on_finish(st) == Ok(Some(UnknownObject(st.obj_props)))

\* XLoader::Unknown(_) => { try!(ignore_current_node(reader)); Ok(()) }
UnknownLoader_on_child_node(st, name, props) == [st |-> st, call |-> Ignore]

\* v => { warn!(..); None }: DeformerLoader has no Unknown variant, so for an
\* unrecognized class or subclass there is no loader and no Deformer value:
\* the node is consumed without being decoded and ObjectsLoader gets None.
DeformerLoader_none(obj_props) == Load("NoDeformer", [obj_props |-> obj_props])

NoDeformer_on_child_node(st, name, props) == [st |-> st, call |-> Ignore]

NoDeformer_on_finish(st) == Ok(None)

DeformerLoader_new(obj_props) ==
    CASE obj_props.class = T("Deformer") /\ obj_props.subclass = T("BlendShape") ->
           Load("BlendShape", BlendShapeLoader_new(obj_props))
      [] obj_props.class = T("Deformer") /\ obj_props.subclass = T("Skin") ->
           Load("Skin", SkinLoader_new(obj_props))
      [] obj_props.class = T("SubDeformer") /\ obj_props.subclass = T("Cluster") ->
           Load("Cluster", ClusterLoader_new(obj_props))
      [] obj_props.class = T("SubDeformer") /\ obj_props.subclass = T("BlendShapeChannel") ->
           Load("BlendShapeChannel", BlendShapeChannelLoader_new(obj_props))
      [] OTHER -> DeformerLoader_none(obj_props)

-----------------------------------------------------------------------------
(* /Objects/Geometry: Mesh (with its layer elements and layers) and Shape  *)

MeshLoader_new(obj_props) ==
    [obj_props |-> obj_props, vertices |-> None, polygon_vertex_index |-> None,
     layer_element_materials |-> <<>>, layer_element_normals |-> <<>>,
     layer_element_uvs |-> <<>>, layers |-> <<>>]

MeshLoader_on_finish(st) ==
    IF st.vertices.some /\ st.polygon_vertex_index.some
    THEN Ok(Some([id |-> st.obj_props.id, name |-> st.obj_props.name,
                  vertices |-> st.vertices.v,
                  polygon_vertex_index |->
                      [triangulated |-> FALSE, index |-> st.polygon_vertex_index.v],
                  layer_element_materials |-> st.layer_element_materials,
                  layer_element_normals |-> st.layer_element_normals,
                  layer_element_uvs |-> st.layer_element_uvs,
                  layers |-> st.layers]))
    ELSE Ok(None)

\* LayerElementLoader::<T>::new(channel, data_node_name, index_node_name);
\* width is the number of floats of one element of T (0 for the unit type).
LayerElementLoader_new(channel, data_node_name, index_node_name, width) ==
    [data_node_name |-> data_node_name, index_node_name |-> index_node_name,
     width |-> width, channel |-> channel, name |-> None,
     mapping_mode |-> None, reference_mode |-> None, data |-> None, index |-> None]

\* LayerElementLoader::<T>::from_node_properties, then load or skip
LayerElementLoader_from_node_properties(props, data_node_name, index_node_name, width) ==
    IF get_i32(props, 1).some
    THEN Load("LayerElement",
              LayerElementLoader_new(get_i32(props, 1).v, data_node_name,
                                     index_node_name, width))
    ELSE Ignore

LayerLoader_new(channel) ==
    [channel |-> channel, material |-> <<>>, normal |-> <<>>, uv |-> <<>>]

LayerLoader_from_node_properties(props) ==
    IF get_i32(props, 1).some
    THEN Load("Layer", LayerLoader_new(get_i32(props, 1).v))
    ELSE Ignore

MeshLoader_on_child_node(st, name, props) ==
    CASE name = "Vertices" ->
           [st |-> [st EXCEPT !.vertices = ChunksOf(as_vec_f32(props, 1), 3)],
            call |-> Ignore]
      [] name = "PolygonVertexIndex" ->
           [st |-> [st EXCEPT !.polygon_vertex_index = extract_vec_i32(props, 1)],
            call |-> Ignore]
      [] name = "LayerElementMaterial" ->
           [st |-> st,
            call |-> LayerElementLoader_from_node_properties(props, "", "Materials", 0)]
      [] name = "LayerElementNormal" ->
           [st |-> st,
            call |-> LayerElementLoader_from_node_properties(props, "Normals", "NormalsIndex", 3)]
      [] name = "LayerElementUV" ->
           [st |-> st,
            call |-> LayerElementLoader_from_node_properties(props, "UV", "UVIndex", 2)]
      [] name = "Layer" ->
           [st |-> st, call |-> LayerLoader_from_node_properties(props)]
      [] OTHER -> [st |-> st, call |-> Ignore]

\* if let Some(x) = try!(loader.load(reader)) { self.<vector>.push(x) }
MeshLoader_resume(st, child, val) ==
    IF ~val.v.some THEN st
    ELSE CASE child.kind = "Layer" -> [st EXCEPT !.layers = Append(@, val.v.v)]
           [] child.st.index_node_name = "Materials" ->
                [st EXCEPT !.layer_element_materials = Append(@, val.v.v)]
           [] child.st.index_node_name = "NormalsIndex" ->
                [st EXCEPT !.layer_element_normals = Append(@, val.v.v)]
           [] OTHER -> [st EXCEPT !.layer_element_uvs = Append(@, val.v.v)]

MappingModes ==
    {T("ByControlPoint"), T("ByVertex"), T("ByVertice"), T("ByPolygonVertex"),
     T("ByPolygon"), T("ByEdge"), T("AllSame")}

\* MappingMode::from_node_properties
MappingMode_from_node_properties(props) ==
    IF get_string(props, 1).some /\ get_string(props, 1).v \in MappingModes
    THEN Some(IF get_string(props, 1).v \in {T("ByVertex"), T("ByVertice")}
              THEN "ByControlPoint" ELSE get_string(props, 1).v[1])
    ELSE None

\* ReferenceMode::from_type_and_indices
ReferenceMode_from_type_and_indices(t, indices) ==
    IF t = "Direct" THEN Some([direct |-> TRUE, index |-> <<>>])
    ELSE IF indices.some THEN Some([direct |-> FALSE, index |-> indices.v])
    ELSE None

LayerElementLoader_on_finish(st) ==
    LET reference_mode ==
            IF st.reference_mode.some
            THEN ReferenceMode_from_type_and_indices(st.reference_mode.v, st.index)
            ELSE None
    IN IF st.name.some /\ st.mapping_mode.some /\ reference_mode.some
       THEN Ok(Some([channel |-> st.channel, name |-> st.name.v,
                     mapping_mode |-> st.mapping_mode.v,
                     reference_mode |-> reference_mode.v, data |-> st.data]))
       ELSE Ok(None)

\* T::node_properties_to_elements_array
node_properties_to_elements_array(props, width) ==
    IF width = 0 THEN None ELSE ChunksOf(as_vec_f32(props, 1), width)

LayerElementLoader_on_child_node(st, name, props) ==
    CASE name = "Version" -> [st |-> st, call |-> Ignore]
      [] name = "Name" ->
           [st |-> [st EXCEPT !.name = get_string(props, 1)], call |-> Ignore]
      [] name = "MappingInformationType" ->
           [st |-> [st EXCEPT !.mapping_mode = MappingMode_from_node_properties(props)],
            call |-> Ignore]
      [] name = "ReferenceInformationType" ->
           [st |-> IF get_string(props, 1).some /\ get_string(props, 1).v = T("Direct")
                   THEN [st EXCEPT !.reference_mode = Some("Direct")]
                   ELSE IF get_string(props, 1).some
                           /\ get_string(props, 1).v \in {T("IndexToDirect"), T("Index")}
                   THEN [st EXCEPT !.reference_mode = Some("IndexToDirect")]
                   ELSE st,
            call |-> Ignore]
      [] name \notin {"Version", "Name", "MappingInformationType", "ReferenceInformationType"}
         /\ name = st.data_node_name ->
           [st |-> [st EXCEPT !.data = node_properties_to_elements_array(props, st.width)],
            call |-> Ignore]
      [] name \notin {"Version", "Name", "MappingInformationType", "ReferenceInformationType"}
         /\ name # st.data_node_name /\ name = st.index_node_name ->
           [st |-> [st EXCEPT !.index = extract_vec_i32(props, 1)], call |-> Ignore]
      [] OTHER -> [st |-> st, call |-> Ignore]

LayerLoader_on_finish(st) ==
    Ok(Some([channel |-> st.channel, normal |-> st.normal, uv |-> st.uv,
             material |-> st.material]))

\* /Objects/Geometry/Layer/LayerElement
LayerLayerElementLoader_new == [layer_element_type |-> None, typed_index |-> None]

LayerLoader_on_child_node(st, name, props) ==
    CASE name = "Version" -> [st |-> st, call |-> Ignore]
      [] name = "LayerElement" ->
           [st |-> st, call |-> Load("LayerLayerElement", LayerLayerElementLoader_new)]
      [] OTHER -> [st |-> st, call |-> Ignore]

LayerLoader_resume(st, val) ==
    IF ~val.v.some THEN st
    ELSE CASE val.v.v[1] = T("LayerElementMaterial") ->
                [st EXCEPT !.material = Append(@, val.v.v[2])]
           [] val.v.v[1] = T("LayerElementNormal") ->
                [st EXCEPT !.normal = Append(@, val.v.v[2])]
           [] val.v.v[1] = T("LayerElementUV") ->
                [st EXCEPT !.uv = Append(@, val.v.v[2])]
           [] OTHER -> st

LayerLayerElementLoader_on_finish(st) ==
    IF st.layer_element_type.some /\ st.typed_index.some
    THEN Ok(Some(<<st.layer_element_type.v, st.typed_index.v>>))
    ELSE Ok(None)

LayerLayerElementLoader_on_child_node(st, name, props) ==
    CASE name = "Type" ->
           [st |-> [st EXCEPT !.layer_element_type = get_string(props, 1)], call |-> Ignore]
      [] name = "TypedIndex" ->
           [st |-> [st EXCEPT !.typed_index = get_i32(props, 1)], call |-> Ignore]
      [] OTHER -> [st |-> st, call |-> Ignore]

ShapeLoader_new(obj_props) ==
    [obj_props |-> obj_props, indices |-> None, vertices |-> None, normals |-> None]

ShapeLoader_on_finish(st) ==
    IF st.indices.some /\ st.vertices.some
    THEN Ok(Some([id |-> st.obj_props.id, name |-> st.obj_props.name,
                  indices |-> st.indices.v, vertices |-> st.vertices.v,
                  normals |-> st.normals]))
    ELSE Ok(None)

ShapeLoader_on_child_node(st, name, props) ==
    CASE name = "Indexes" ->
           [st |-> [st EXCEPT !.indices = extract_vec_i32(props, 1)], call |-> Ignore]
      [] name = "Vertices" ->
           [st |-> [st EXCEPT !.vertices = ChunksOf(as_vec_f32(props, 1), 3)], call |-> Ignore]
      [] name = "Normals" ->
           [st |-> [st EXCEPT !.normals = ChunksOf(as_vec_f32(props, 1), 3)], call |-> Ignore]
      [] OTHER -> [st |-> st, call |-> Ignore]

GeometryLoader_new(obj_props) ==
    CASE obj_props.subclass = T("Mesh") -> Load("Mesh", MeshLoader_new(obj_props))
      [] obj_props.subclass = T("Shape") -> Load("Shape", ShapeLoader_new(obj_props))
      [] OTHER -> Load("Unknown", UnknownLoader_new(obj_props))

-----------------------------------------------------------------------------
(* /Objects/NodeAttribute and /Objects/CollectionExclusive                 *)

NodeAttributeTypes ==
    {T("Unknown"), T("Null"), T("Marker"), T("Skeleton"), T("Mesh"), T("Nurbs"),
     T("Patch"), T("Camera"), T("CameraStereo"), T("CameraSwitcher"), T("Light"),
     T("OpticalReference"), T("OpticalMarker"), T("NurbsCurve"),
     T("TrimNurbsSurface"), T("Boundary"), T("NurbsSurface"), T("Shape"),
     T("LODGroup"), T("SubDiv"), T("CachedEffect"), T("Line")}

\* .and_then(|p| p.get_string()).map(NodeAttributeType::from_string)
NodeAttributeType_from_string(opt) ==
    IF ~opt.some THEN None
    ELSE IF opt.v \in NodeAttributeTypes THEN Some(opt.v[1])
    ELSE Some("Unknown")

NodeAttributeLoader_fields(obj_props) ==
    [obj_props |-> obj_props, properties |-> None, type_flags |-> None]

LimbNodeAttributeLoader_on_finish(st, definitions) ==
    LET defaults == Defaults(definitions, "NodeAttribute", "FbxSkeleton")
        size == AndThenF64(get_or_default(st.properties, defaults, T("Size")))
    IN IF st.type_flags.some /\ size.some
       THEN Ok(Some([id |-> st.obj_props.id, type_flags |-> st.type_flags.v,
                     size |-> size.v]))
       ELSE Ok(None)

NullNodeAttributeLoader_on_finish(st, definitions) ==
    LET defaults == Defaults(definitions, "NodeAttribute", "FbxNull")
        color == AndThenColor(get_or_default(st.properties, defaults, T("Color")))
        size == AndThenF64(get_or_default(st.properties, defaults, T("Size")))
        look == FromI64(AndThenI64(get_or_default(st.properties, defaults, T("Look"))), 1)
    IN IF color.some /\ size.some /\ look.some
       THEN Ok(Some([id |-> st.obj_props.id, color |-> color.v, size |-> size.v,
                     look |-> look.v]))
       ELSE Ok(None)

\* LimbNodeAttributeLoader and NullNodeAttributeLoader handle children alike.
NodeAttributeLoader_on_child_node(st, name, props) ==
    CASE name = "Properties70" ->
           [st |-> st, call |-> Load("GenericProperties", GenericPropertiesLoader_new)]
      [] name = "TypeFlags" ->
           [st |-> [st EXCEPT !.type_flags =
                       NodeAttributeType_from_string(get_string(props, 1))],
            call |-> Ignore]
      [] OTHER -> [st |-> st, call |-> Ignore]

NodeAttributeLoader_new(obj_props) ==
    CASE obj_props.subclass = T("LimbNode") ->
           Load("LimbNodeAttribute", NodeAttributeLoader_fields(obj_props))
      [] obj_props.subclass = T("Null") ->
           Load("NullNodeAttribute", NodeAttributeLoader_fields(obj_props))
      [] OTHER -> Load("Unknown", UnknownLoader_new(obj_props))

DisplayLayerLoader_new(obj_props) == [obj_props |-> obj_props, properties |-> None]

DisplayLayerLoader_on_finish(st, definitions) ==
    LET defaults == Defaults(definitions, "CollectionExclusive", "FbxDisplayLayer")
        color == AndThenColor(get_or_default(st.properties, defaults, T("Color")))
        show == NonZero(AndThenI64(get_or_default(st.properties, defaults, T("Show"))))
        freeze == NonZero(AndThenI64(get_or_default(st.properties, defaults, T("Freeze"))))
        lod_box == NonZero(AndThenI64(get_or_default(st.properties, defaults, T("LODBox"))))
    IN IF color.some /\ show.some /\ freeze.some /\ lod_box.some
       THEN Ok(Some([id |-> st.obj_props.id, color |-> color.v, show |-> show.v,
                     freeze |-> freeze.v, lod_box |-> lod_box.v]))
       ELSE Ok(None)

DisplayLayerLoader_on_child_node(st, name, props) ==
    IF name = "Properties70"
    THEN [st |-> st, call |-> Load("GenericProperties", GenericPropertiesLoader_new)]
    ELSE [st |-> st, call |-> Ignore]

CollectionExclusiveLoader_new(obj_props) ==
    IF obj_props.subclass = T("DisplayLayer")
    THEN Load("DisplayLayer", DisplayLayerLoader_new(obj_props))
    ELSE Load("Unknown", UnknownLoader_new(obj_props))

-----------------------------------------------------------------------------
(* The Objects store and /Objects.                                         *)

\* Objects::new(): one map per type, keyed by object id.
Objects_new ==
    [unknown |-> EmptyMap, blend_shapes |-> EmptyMap, display_layers |-> EmptyMap,
     geometry_meshes |-> EmptyMap, geometry_shapes |-> EmptyMap,
     materials |-> EmptyMap, model_limb_nodes |-> EmptyMap,
     model_meshes |-> EmptyMap, model_nulls |-> EmptyMap,
     node_attribute_limb_nodes |-> EmptyMap, node_attribute_nulls |-> EmptyMap,
     poses |-> EmptyMap, skins |-> EmptyMap, textures |-> EmptyMap,
     videos |-> EmptyMap, clusters |-> EmptyMap, blend_shape_channels |-> EmptyMap]

ObjectMaps == DOMAIN Objects_new

\* The mutant files an object under its name instead of its id.
add_object_by_position(objects, plural, obj) ==
    [objects EXCEPT ![plural] = Insert(@, Cardinality(DOMAIN @) + 10, obj)]

\* implement_method_for_object!: self.$plural.insert(obj.id, obj)
add_object(objects, plural, obj) ==
    [objects EXCEPT ![plural] = Insert(@, obj.id, obj)]

\* The maps for the two sub-deformer variants of the data model.
add_sub_deformer(objects, kind, obj) ==
    add_object(objects, IF kind = "Cluster" THEN "clusters" ELSE "blend_shape_channels", obj)

\* ObjectsLoader borrows the store, the definitions and the converter.
ObjectsLoader_new(objects, definitions) ==
    [objects |-> objects, definitions |-> definitions]

\* The mutant returns Ok on a malformed identity without skipping the node.
ObjectsLoader_malformed_identity_returns == [op |-> "return"]

\* if ObjectProperties::from_node_properties fails: skip the node, return Ok
ObjectsLoader_malformed_identity == Ignore

ObjectsLoader_on_child_node(st, name, props) ==
    LET obj_props == ObjectProperties_from_node_properties(props)
    IN IF ~obj_props.some
       THEN [st |-> st, call |-> ObjectsLoader_malformed_identity]
       ELSE CASE name = "CollectionExclusive" ->
                   [st |-> st, call |-> CollectionExclusiveLoader_new(obj_props.v)]
              [] name = "Deformer" ->
                   [st |-> st, call |-> DeformerLoader_new(obj_props.v)]
              [] name = "Geometry" ->
                   [st |-> st, call |-> GeometryLoader_new(obj_props.v)]
              [] name = "Material" ->
                   [st |-> st, call |-> Load("Material", MaterialLoader_new(obj_props.v))]
              [] name = "Model" ->
                   [st |-> st, call |-> Load("Model", ModelLoader_new(obj_props.v))]
              [] name = "NodeAttribute" ->
                   [st |-> st, call |-> NodeAttributeLoader_new(obj_props.v)]
              [] name = "Pose" ->
                   [st |-> st, call |-> Load("Pose", PoseLoader_new(obj_props.v))]
              [] name = "Texture" ->
                   [st |-> st, call |-> Load("Texture", TextureLoader_new(obj_props.v))]
              [] name = "Video" ->
                   [st |-> st, call |-> Load("Video", VideoLoader_new(obj_props.v))]
              [] OTHER ->
                   [st |-> [st EXCEPT !.objects =
                               add_object(@, "unknown", UnknownObject(obj_props.v))],
                    call |-> Ignore]

\* The mutant drops the Unknown variant a class-level loader returns.
ObjectsLoader_add_unknown_dropped(objects, obj) == objects

\* Some(X::Unknown(obj)) => self.objects.add_unknown(obj)
ObjectsLoader_add_unknown(objects, obj) == add_object(objects, "unknown", obj)

\* The match on the value the object's loader returned.
ObjectsLoader_resume(st, child, val) ==
    IF ~val.v.some THEN st
    ELSE LET obj == val.v.v
             subclass == child.st.obj_props.subclass
             plural ==
                 CASE child.kind = "DisplayLayer" -> "display_layers"
                   [] child.kind = "BlendShape" -> "blend_shapes"
                   [] child.kind = "Skin" -> "skins"
                   [] child.kind = "Mesh" -> "geometry_meshes"
                   [] child.kind = "Shape" -> "geometry_shapes"
                   [] child.kind = "Material" -> "materials"
                   [] child.kind = "LimbNodeAttribute" -> "node_attribute_limb_nodes"
                   [] child.kind = "NullNodeAttribute" -> "node_attribute_nulls"
                   [] child.kind = "Pose" -> "poses"
                   [] child.kind = "Texture" -> "textures"
                   [] child.kind = "Video" -> "videos"
                   [] child.kind = "Model" /\ subclass = T("LimbNode") -> "model_limb_nodes"
                   [] child.kind = "Model" /\ subclass = T("Mesh") -> "model_meshes"
                   [] child.kind = "Model" /\ subclass = T("Null") -> "model_nulls"
                   [] OTHER -> "unknown"
         IN CASE child.kind = "Unknown" ->
                   [st EXCEPT !.objects = ObjectsLoader_add_unknown(@, obj)]
              [] child.kind \in {"Cluster", "BlendShapeChannel"} ->
                   [st EXCEPT !.objects = add_sub_deformer(@, child.kind, obj)]
              [] child.kind = "Model" /\ plural = "unknown" ->
                   [st EXCEPT !.objects =
                       add_object(@, "unknown", UnknownObject(child.st.obj_props))]
              [] OTHER -> [st EXCEPT !.objects = add_object(@, plural, obj)]

ObjectsLoader_on_finish(st) == Ok(<<>>)

-----------------------------------------------------------------------------
(* The scene.                                                              *)

FbxSceneLoader_new ==
    [fbx_header_extension |-> None, definitions |-> None,
     objects |-> Objects_new, connections |-> None]

\* The mutant returns a scene without connections when no Connections node
\* was decoded.
FbxSceneLoader_on_finish_lenient(st) ==
    IF ~st.fbx_header_extension.some THEN Err
    ELSE Ok([fbx_header_extension |-> st.fbx_header_extension.v,
             objects |-> st.objects,
             connections |-> IF st.connections.some THEN st.connections.v ELSE <<>>])

FbxSceneLoader_on_finish(st) ==
    IF ~st.fbx_header_extension.some THEN Err
    ELSE IF ~st.connections.some THEN Err
    ELSE Ok([fbx_header_extension |-> st.fbx_header_extension.v,
             objects |-> st.objects, connections |-> st.connections.v])

\* The mutant loads an Objects node without definitions as if the
\* Definitions node had been empty.
FbxSceneLoader_on_child_node_lenient(st, name, props) ==
    CASE name = "FBXHeaderExtension" ->
           [st |-> st, call |-> Load("FbxHeaderExtension", <<>>)]
      [] name = "Definitions" ->
           [st |-> st, call |-> Load("Definitions", DefinitionsLoader_new)]
      [] name = "Objects" ->
           [st |-> st,
            call |-> Load("Objects",
                          ObjectsLoader_new(st.objects,
                                            IF st.definitions.some THEN st.definitions.v
                                            ELSE EmptyMap))]
      [] name = "Connections" ->
           [st |-> st, call |-> Load("Connections", ConnectionsLoader_new)]
      [] OTHER -> [st |-> st, call |-> Ignore]

FbxSceneLoader_on_child_node(st, name, props) ==
    CASE name = "FBXHeaderExtension" ->
           [st |-> st, call |-> Load("FbxHeaderExtension", <<>>)]
      [] name = "Definitions" ->
           [st |-> st, call |-> Load("Definitions", DefinitionsLoader_new)]
      [] name = "Objects" ->
           IF st.definitions.some
           THEN [st |-> st,
                 call |-> Load("Objects", ObjectsLoader_new(st.objects, st.definitions.v))]
           ELSE [st |-> st, call |-> Fail]
      [] name = "Connections" ->
           [st |-> st, call |-> Load("Connections", ConnectionsLoader_new)]
      [] OTHER -> [st |-> st, call |-> Ignore]

FbxSceneLoader_resume(st, child, val) ==
    CASE child.kind = "FbxHeaderExtension" ->
           [st EXCEPT !.fbx_header_extension = Some(val.v)]
      [] child.kind = "Definitions" -> [st EXCEPT !.definitions = Some(val.v)]
      [] child.kind = "Objects" -> [st EXCEPT !.objects = child.st.objects]
      [] OTHER -> [st EXCEPT !.connections = Some(val.v)]

-----------------------------------------------------------------------------
(* Dispatch on the kind of loader a load activation runs.                  *)

SkipKind == "ignore_current_node"

PropertiesOwners ==
    {"PropertyTemplate", "Texture", "Model", "Material", "Video",
     "LimbNodeAttribute", "NullNodeAttribute", "DisplayLayer"}

\* loader.on_child_node(reader, node_info) up to its call on the reader
on_child_node(kind, st, name, props) ==
    CASE kind = "FbxScene" -> FbxSceneLoader_on_child_node(st, name, props)
      [] kind = "FbxHeaderExtension" -> FbxHeaderExtensionLoader_on_child_node(st, name, props)
      [] kind = "Definitions" -> DefinitionsLoader_on_child_node(st, name, props)
      [] kind = "PropertyTemplates" -> PropertyTemplatesLoader_on_child_node(st, name, props)
      [] kind = "PropertyTemplate" -> PropertyTemplateLoader_on_child_node(st, name, props)
      [] kind = "GenericProperties" -> GenericPropertiesLoader_on_child_node(st, name, props)
      [] kind = "PropertyNode" -> PropertyNodeLoader_on_child_node(st, name, props)
      [] kind = "Connections" -> ConnectionsLoader_on_child_node(st, name, props)
      [] kind = "Objects" -> ObjectsLoader_on_child_node(st, name, props)
      [] kind = "Texture" -> TextureLoader_on_child_node(st, name, props)
      [] kind = "Model" -> ModelLoader_on_child_node(st, name, props)
      [] kind = "Material" -> MaterialLoader_on_child_node(st, name, props)
      [] kind = "Video" -> VideoLoader_on_child_node(st, name, props)
      [] kind = "Pose" -> PoseLoader_on_child_node(st, name, props)
      [] kind = "PoseNode" -> PoseNodeLoader_on_child_node(st, name, props)
      [] kind = "BlendShape" -> BlendShapeLoader_on_child_node(st, name, props)
      [] kind = "Skin" -> SkinLoader_on_child_node(st, name, props)
      [] kind = "Cluster" -> ClusterLoader_on_child_node(st, name, props)
      [] kind = "BlendShapeChannel" -> BlendShapeChannelLoader_on_child_node(st, name, props)
      [] kind = "Mesh" -> MeshLoader_on_child_node(st, name, props)
      [] kind = "LayerElement" -> LayerElementLoader_on_child_node(st, name, props)
      [] kind = "Layer" -> LayerLoader_on_child_node(st, name, props)
      [] kind = "LayerLayerElement" -> LayerLayerElementLoader_on_child_node(st, name, props)
      [] kind = "Shape" -> ShapeLoader_on_child_node(st, name, props)
      [] kind \in {"LimbNodeAttribute", "NullNodeAttribute"} ->
           NodeAttributeLoader_on_child_node(st, name, props)
      [] kind = "DisplayLayer" -> DisplayLayerLoader_on_child_node(st, name, props)
      [] kind = "Unknown" -> UnknownLoader_on_child_node(st, name, props)
      [] kind = "NoDeformer" -> NoDeformer_on_child_node(st, name, props)

\* loader.on_finish(); definitions is the store the loader borrowed
on_finish(kind, st, definitions) ==
    CASE kind = "FbxScene" -> FbxSceneLoader_on_finish(st)
      [] kind = "FbxHeaderExtension" -> FbxHeaderExtensionLoader_on_finish(st)
      [] kind = "Definitions" -> DefinitionsLoader_on_finish(st)
      [] kind = "PropertyTemplates" -> PropertyTemplatesLoader_on_finish(st)
      [] kind = "PropertyTemplate" -> PropertyTemplateLoader_on_finish(st)
      [] kind = "GenericProperties" -> GenericPropertiesLoader_on_finish(st)
      [] kind = "PropertyNode" -> PropertyNodeLoader_on_finish(st)
      [] kind = "Connections" -> ConnectionsLoader_on_finish(st)
      [] kind = "Objects" -> ObjectsLoader_on_finish(st)
      [] kind = "Texture" -> TextureLoader_on_finish(st, definitions)
      [] kind = "Model" -> ModelLoader_on_finish(st, definitions)
      [] kind = "Material" -> MaterialLoader_on_finish(st, definitions)
      [] kind = "Video" -> VideoLoader_on_finish(st, definitions)
      [] kind = "Pose" -> PoseLoader_on_finish(st, definitions)
      [] kind = "PoseNode" -> PoseNodeLoader_on_finish(st)
      [] kind = "BlendShape" -> BlendShapeLoader_on_finish(st)
      [] kind = "Skin" -> SkinLoader_on_finish(st)
      [] kind = "Cluster" -> ClusterLoader_on_finish(st)
      [] kind = "BlendShapeChannel" -> BlendShapeChannelLoader_on_finish(st)
      [] kind = "Mesh" -> MeshLoader_on_finish(st)
      [] kind = "LayerElement" -> LayerElementLoader_on_finish(st)
      [] kind = "Layer" -> LayerLoader_on_finish(st)
      [] kind = "LayerLayerElement" -> LayerLayerElementLoader_on_finish(st)
      [] kind = "Shape" -> ShapeLoader_on_finish(st)
      [] kind = "LimbNodeAttribute" -> LimbNodeAttributeLoader_on_finish(st, definitions)
      [] kind = "NullNodeAttribute" -> NullNodeAttributeLoader_on_finish(st, definitions)
      [] kind = "DisplayLayer" -> DisplayLayerLoader_on_finish(st, definitions)
      [] kind = "Unknown" -> UnknownLoader_on_finish(st)
      [] kind = "NoDeformer" -> NoDeformer_on_finish(st)

\* What the handler of a loader does with the value its sub-loader returned.
resume(kind, st, child, val) ==
    CASE kind = "FbxScene" -> FbxSceneLoader_resume(st, child, val)
      [] kind = "Definitions" -> DefinitionsLoader_resume(st, child, val)
      [] kind = "PropertyTemplates" -> PropertyTemplatesLoader_resume(st, child, val)
      [] kind = "PropertyTemplate" -> PropertyTemplateLoader_resume(st, child, val)
      [] kind = "GenericProperties" -> GenericPropertiesLoader_resume(st, child, val)
      [] kind = "Objects" -> ObjectsLoader_resume(st, child, val)
      [] kind = "Pose" -> PoseLoader_resume(st, val)
      [] kind = "Mesh" -> MeshLoader_resume(st, child, val)
      [] kind = "Layer" -> LayerLoader_resume(st, val)
      [] kind \in PropertiesOwners -> SetProperties(st, val)

-----------------------------------------------------------------------------
(* The nodes the reader produces.  A node is a name and a list of cells;   *)
(* below each kind of loader the reader draws the node from a small set    *)
(* that has, for every name the loader matches on, a well-formed node and  *)
(* malformed ones, and a node of a name the loader does not know.          *)

Node(name, props) == [name |-> name, props |-> props]

OtherNode == Node("Other", <<>>)

\* The three leading cells of an object node.
Identity(id, name, class, subclass) ==
    <<I64(id), Str(<<name, NUL, SOH, class>>), Str(T(subclass))>>

\* The cells of a P node.
PCells(name, type_name, label, flags, values) ==
    <<Str(T(name)), Str(T(type_name)), Str(T(label)), Str(T(flags))>> \o values

Ids == 1..MaxId

Matrix16 == [k \in 1..16 |-> IF k \in {1, 6, 11, 16} THEN 1 ELSE 0]

ObjectNodes ==
    UNION {{ Node("Texture", Identity(id, "tex", "Texture", "")),
             Node("Deformer", Identity(id, "bs", "Deformer", "BlendShape")),
             Node("Deformer", Identity(id, "skin", "Deformer", "Skin")),
             Node("Deformer", Identity(id, "x", "Deformer", "Exotic")),
             Node("Deformer", Identity(id, "cl", "SubDeformer", "Cluster")),
             Node("Deformer", Identity(id, "ch", "SubDeformer", "BlendShapeChannel")),
             Node("Geometry", Identity(id, "mesh", "Geometry", "Mesh")),
             Node("Geometry", Identity(id, "shape", "Geometry", "Shape")),
             Node("Geometry", Identity(id, "x", "Geometry", "Exotic")),
             Node("Material", Identity(id, "mat", "Material", "")),
             Node("Model", Identity(id, "limb", "Model", "LimbNode")),
             Node("Model", Identity(id, "x", "Model", "Exotic")),
             Node("NodeAttribute", Identity(id, "na", "NodeAttribute", "LimbNode")),
             Node("NodeAttribute", Identity(id, "na", "NodeAttribute", "Null")),
             Node("NodeAttribute", Identity(id, "x", "NodeAttribute", "Exotic")),
             Node("Pose", Identity(id, "pose", "Pose", "BindPose")),
             Node("Video", Identity(id, "vid", "Video", "Clip")),
             Node("CollectionExclusive", Identity(id, "dl", "DisplayLayer", "DisplayLayer")),
             Node("CollectionExclusive", Identity(id, "x", "DisplayLayer", "Exotic")),
             Node("Exotic", Identity(id, "x", "Exotic", "")) } : id \in Ids}
    \cup { Node("Texture", <<I64(1), Str(T("no separator")), Str(T(""))>>),
           Node("Deformer", <<I32(1), Str(<<"x", NUL, SOH, "Deformer">>), Str(T("Skin"))>>),
           Node("Model", <<I64(1), Str(<<"x", NUL, SOH, "Model">>)>>),
           Node("Exotic", <<>>) }

PropertyNodes ==
    { Node("P", PCells("CurrentTextureBlendMode", "enum", "", "", <<I32(1)>>)),
      Node("P", PCells("PremultiplyAlpha", "bool", "", "", <<I32(1)>>)),
      Node("P", PCells("UVSet", "KString", "", "", <<Str(T("map1"))>>)),
      Node("P", PCells("UVSet", "KString", "", "", <<I32(7)>>)),
      Node("P", PCells("WrapModeU", "enum", "", "", <<I32(1)>>)),
      Node("P", PCells("WrapModeU", "enum", "", "", <<I32(7)>>)),
      Node("P", PCells("WrapModeV", "enum", "", "", <<I32(0)>>)),
      Node("P", PCells("Size", "double", "Number", "", <<F64(100)>>)),
      Node("P", PCells("Color", "ColorRGB", "Color", "", <<F64(1), F64(0), F64(0)>>)),
      Node("P", PCells("Show", "bool", "", "", <<I32(1), Str(T("x"))>>)),
      Node("P", PCells("Visibility", "Visibility", "", "A", <<Bool(1)>>)),
      Node("P", PCells("Path", "KString", "XRefUrl", "", <<>>)),
      Node("P", PCells("Thumbnail", "Blob", "", "", <<I32(2)>>)),
      Node("P", PCells("Thumbnail", "Blob", "Blob", "", <<I32(2)>>)),
      Node("P", PCells("Thumbnail", "Blob", "Blob", "", <<>>)),
      Node("P", <<Str(T("UVSet")), Str(T("KString"))>>),
      Node("P", <<I32(1)>>),
      OtherNode }

\* The loaders that know a version child, the name of that child and the
\* version the loader expects without a warning.
VersionedKinds ==
    {"Definitions", "Mesh", "LayerElement", "Layer", "Shape", "Skin", "Cluster",
     "BlendShape", "BlendShapeChannel", "Material", "Model", "Pose", "Texture"}

VersionChild(kind) == IF kind = "Mesh" THEN "GeometryVersion" ELSE "Version"

ExpectedVersion(kind) ==
    CASE kind = "Texture" -> 202
      [] kind = "Model" -> 232
      [] kind = "Material" -> 102
      [] kind = "Mesh" -> 124
      [] kind \in {"LayerElement", "Skin"} -> 101
      [] OTHER -> 100

VersionNode(kind, version) == Node(VersionChild(kind), <<I32(version)>>)

\* A version child with the expected version and one with another version.
VersionNodes(kind) ==
    IF kind \in VersionedKinds
    THEN {VersionNode(kind, ExpectedVersion(kind)), VersionNode(kind, 999)}
    ELSE {}

\* The nodes the reader may produce as a child of the node a loader of the
\* given kind loads, or inside a node that is being skipped.
NodesFor(kind) ==
    VersionNodes(kind) \cup
    CASE kind = "FbxScene" ->
           { Node("FBXHeaderExtension", <<>>), Node("Definitions", <<>>),
             Node("Objects", <<>>), Node("Connections", <<>>), OtherNode }
      [] kind = "Definitions" ->
           { Node("ObjectType", <<Str(T("Texture"))>>), Node("ObjectType", <<I64(1)>>),
             OtherNode }
      [] kind = "PropertyTemplates" ->
           { Node("PropertyTemplate", <<Str(T("FbxFileTexture"))>>),
             Node("PropertyTemplate", <<>>), Node("Count", <<I32(1)>>), OtherNode }
      [] kind \in {"PropertyTemplate", "DisplayLayer"} ->
           { Node("Properties70", <<>>), OtherNode }
      [] kind = "GenericProperties" -> PropertyNodes
      [] kind = "PropertyNode" ->
           { Node("BinaryData", <<Bin(<<"b1", "b2">>)>>), Node("BinaryData", <<I32(1)>>),
             OtherNode }
      [] kind = "Connections" ->
           { Node("C", <<Str(T("OO")), I64(1), I64(2)>>),
             Node("C", <<Str(T("OP")), I64(2), I64(1), Str(T("DiffuseColor"))>>),
             Node("C", <<Str(T("XX")), I64(1), I64(2)>>),
             Node("C", <<Str(T("OO")), I32(1), I64(2)>>),
             Node("C", <<Str(T("PO")), I64(1), I64(1)>>),
             Node("C", <<Str(T("PP")), I64(2), I64(1), I64(3)>>),
             Node("C", <<Str(T("OO")), I64(1)>>), OtherNode }
      [] kind = "Objects" -> ObjectNodes
      [] kind = "Texture" ->
           { Node("FileName", <<Str(T("a.png"))>>), Node("FileName", <<I64(1)>>),
             Node("RelativeFilename", <<Str(T("a.png"))>>),
             Node("Media", <<Str(<<"clip", NUL, SOH, "Video">>)>>),
             Node("Properties70", <<>>), OtherNode }
      [] kind = "Model" ->
           { Node("Shading", <<Bool(1)>>), Node("Shading", <<I32(1)>>),
             Node("Culling", <<Str(T("CullingOff"))>>), Node("Culling", <<Str(T("Sideways"))>>),
             Node("Properties70", <<>>), OtherNode }
      [] kind = "Material" ->
           { Node("ShadingModel", <<Str(T("phong"))>>), Node("MultiLayer", <<I32(0)>>),
             Node("MultiLayer", <<Str(T("no"))>>), Node("Properties70", <<>>), OtherNode }
      [] kind = "Video" ->
           { Node("UseMipMap", <<I32(0)>>), Node("Filename", <<Str(T("a.png"))>>),
             Node("RelativeFilename", <<Str(T("a.png"))>>),
             Node("Filename", <<Str(T("b.png"))>>), Node("Filename", <<I64(1)>>),
             Node("Content", <<Bin(<<"b1">>)>>), Node("Content", <<Str(T("b1"))>>),
             Node("Properties70", <<>>), OtherNode }
      [] kind = "Pose" ->
           { Node("NbPoseNodes", <<I32(1)>>), Node("NbPoseNodes", <<I32(0 - 1)>>),
             Node("NbPoseNodes", <<I32(2)>>), Node("NbPoseNodes", <<I64(1)>>),
             Node("PoseNode", <<>>), Node("Type", <<Str(T("BindPose"))>>), OtherNode }
      [] kind = "PoseNode" ->
           { Node("Node", <<I64(1)>>), Node("Matrix", <<VecF64(Matrix16)>>),
             Node("Matrix", <<VecF64(<<1, 0>>)>>), OtherNode }
      [] kind = "Skin" ->
           { Node("Link_DeformAcuracy", <<F64(50)>>), Node("SkinningType", <<Str(T("Linear"))>>),
             Node("SkinningType", <<Str(T("Bent"))>>), OtherNode }
      [] kind = "Cluster" ->
           { Node("UserData", <<Str(T("")), Str(T(""))>>),
             Node("Indexes", <<VecI32(<<0, 1>>)>>), Node("Weights", <<VecF64(<<1, 1>>)>>),
             Node("Weights", <<VecF64(<<1>>)>>), Node("Transform", <<VecF64(Matrix16)>>),
             Node("TransformLink", <<VecF64(Matrix16)>>), OtherNode }
      [] kind = "BlendShapeChannel" ->
           { Node("DeformPercent", <<F64(0)>>), Node("FullWeights", <<VecF64(<<100>>)>>),
             Node("FullWeights", <<I32(1)>>), OtherNode }
      [] kind = "Mesh" ->
           { Node("Vertices", <<VecF64(<<0, 0, 0, 1, 0, 0, 1, 1, 0, 9>>)>>),
             Node("Vertices", <<VecF64(<<>>)>>),
             Node("PolygonVertexIndex", <<VecI32(<<0, 1, 0 - 3>>)>>),
             Node("LayerElementNormal", <<I32(0)>>), Node("LayerElementNormal", <<>>),
             Node("LayerElementUV", <<I32(0)>>), Node("LayerElementMaterial", <<I32(0)>>),
             Node("Layer", <<I32(0)>>), Node("Layer", <<>>), OtherNode }
      [] kind = "LayerElement" ->
           { Node("Name", <<Str(T(""))>>),
             Node("MappingInformationType", <<Str(T("ByPolygonVertex"))>>),
             Node("MappingInformationType", <<Str(T("BySomething"))>>),
             Node("ReferenceInformationType", <<Str(T("Direct"))>>),
             Node("ReferenceInformationType", <<Str(T("IndexToDirect"))>>),
             Node("Normals", <<VecF64(<<0, 0, 1>>)>>), Node("NormalsIndex", <<VecI32(<<0>>)>>),
             Node("UV", <<VecF64(<<0, 1>>)>>), Node("Materials", <<VecI32(<<0>>)>>),
             OtherNode }
      [] kind = "Layer" ->
           { Node("LayerElement", <<>>), OtherNode }
      [] kind = "LayerLayerElement" ->
           { Node("Type", <<Str(T("LayerElementNormal"))>>),
             Node("Type", <<Str(T("LayerElementColor"))>>),
             Node("TypedIndex", <<I32(0)>>), OtherNode }
      [] kind = "Shape" ->
           { Node("Indexes", <<VecI32(<<0>>)>>), Node("Vertices", <<VecF64(<<0, 0, 1>>)>>),
             Node("Normals", <<VecF64(<<0, 0, 1>>)>>), OtherNode }
      [] kind \in {"LimbNodeAttribute", "NullNodeAttribute"} ->
           { Node("TypeFlags", <<Str(T("Skeleton"))>>), Node("TypeFlags", <<Str(T("Bone"))>>),
             Node("Properties70", <<>>), OtherNode }
      [] OTHER -> { OtherNode }

-----------------------------------------------------------------------------
(* Template stores an Objects section is decoded against.                  *)

\* The record GenericPropertiesLoader stores for a P node with these cells.
PropertyOf(cells) ==
    PropertyNodeLoader_on_finish(PropertyNodeLoader_new(cells, 2).v).v.v

\* The property map decoded from P nodes with these cells.
PropertiesOf(cellsSet) ==
    [k \in {cells[1].s : cells \in cellsSet} |->
        PropertyOf(CHOOSE cells \in cellsSet : cells[1].s = k)]

TextureTemplate ==
    { PCells("CurrentTextureBlendMode", "enum", "", "", <<I32(0)>>),
      PCells("PremultiplyAlpha", "bool", "", "", <<I32(1)>>),
      PCells("UVSet", "KString", "", "", <<Str(T("default"))>>),
      PCells("WrapModeU", "enum", "", "", <<I32(0)>>),
      PCells("WrapModeV", "enum", "", "", <<I32(0)>>) }

TextureKey == <<T("Texture"), T("FbxFileTexture")>>

FullTemplates ==
    (TextureKey :> PropertiesOf(TextureTemplate))
    @@ (<<T("Model"), T("FbxNode")>> :>
           PropertiesOf({ PCells("AxisLen", "double", "Number", "", <<F64(10)>>),
                          PCells("Show", "bool", "", "", <<I32(1)>>),
                          PCells("InheritType", "enum", "", "", <<I32(1)>>) }))
    @@ (<<T("NodeAttribute"), T("FbxSkeleton")>> :>
           PropertiesOf({ PCells("Size", "double", "Number", "", <<F64(100)>>) }))
    @@ (<<T("NodeAttribute"), T("FbxNull")>> :>
           PropertiesOf({ PCells("Color", "ColorRGB", "Color", "", <<F64(1), F64(1), F64(1)>>),
                          PCells("Size", "double", "Number", "", <<F64(100)>>),
                          PCells("Look", "enum", "", "", <<I32(1)>>) }))
    @@ (<<T("CollectionExclusive"), T("FbxDisplayLayer")>> :>
           PropertiesOf({ PCells("Color", "ColorRGB", "Color", "", <<F64(1), F64(1), F64(1)>>),
                          PCells("Show", "bool", "", "", <<I32(1)>>),
                          PCells("Freeze", "bool", "", "", <<I32(0)>>),
                          PCells("LODBox", "bool", "", "", <<I32(0)>>) }))
    @@ (<<T("Video"), T("FbxVideo")>> :>
           PropertiesOf({ PCells("Path", "KString", "XRefUrl", "", <<Str(T("a.png"))>>) }))

\* No template at all, every template, and every template with one of the
\* texture defaults missing.
DefinitionsChoices ==
    {EmptyMap, FullTemplates}
    \cup {[FullTemplates EXCEPT ![TextureKey] = PropertiesOf(TextureTemplate \ {cells})] :
             cells \in TextureTemplate}

-----------------------------------------------------------------------------
(* The traversal: every action is one call of reader.next() by the         *)
(* innermost activation and what that activation does with the event.      *)
(* An Err or a panic unwinds every activation, so it leaves no stack.      *)

\* An activation: the depth of the node it consumes, the number of nodes that had
\* been opened when it was called, the level counter of ignore_current_node.
Frame(kind, base, from, level, st) ==
    [kind |-> kind, base |-> base, from |-> from, level |-> level, st |-> st]

Top == stack[Len(stack)]
Below == SubSeq(stack, 1, Len(stack) - 1)

Running == result = "running" /\ stack # <<>>
InLoad == Running /\ Top.kind # SkipKind
InIgnore == Running /\ Top.kind = SkipKind

NoReturn ==
    [fn |-> "none", kind |-> "none", base |-> 0, at |-> 0, nodes |-> 0, ok |-> TRUE,
     ev |-> "none", handler |-> "none", hbase |-> 0, status |-> "open"]

\* The record of a return of fn, run by a frame, on the event ev: the depth the
\* cursor is left at, the number of nodes opened since the call, the caller.
Return(fn, frame, ok, ev, at, status, handler, hbase) ==
    [fn |-> fn, kind |-> frame.kind, base |-> frame.base, at |-> at,
     nodes |-> nnodes' - frame.from, ok |-> ok,
     ev |-> ev, handler |-> handler, hbase |-> hbase, status |-> status]

\* The store of definitions the loader on top borrowed from ObjectsLoader.
BorrowedDefinitions ==
    IF Len(stack) > 1 /\ stack[Len(stack) - 1].kind = "Objects"
    THEN stack[Len(stack) - 1].st.definitions
    ELSE EmptyMap

\* What the caller of the outermost load holds when it returns Ok.
RootValue(frame, val) ==
    IF frame.kind = "Objects" THEN [objects |-> frame.st.objects] ELSE val.v

\* The activation on top returns Ok(val) to its caller.
ReturnOk(fn, val, ev, at, status) ==
    IF Len(stack) = 1
    THEN /\ stack' = <<>>
         /\ result' = "Ok"
         /\ scene' = Some(RootValue(Top, val))
         /\ ret' = Return(fn, Top, TRUE, ev, at, status, "none", 0)
    ELSE LET parent == stack[Len(stack) - 1]
             resumed == IF Top.kind = SkipKind THEN parent
                        ELSE [parent EXCEPT !.st = resume(parent.kind, parent.st, Top, val)]
         IN /\ stack' = SubSeq(stack, 1, Len(stack) - 2) \o <<resumed>>
            /\ result' = result
            /\ scene' = scene
            /\ ret' = Return(fn, Top, TRUE, ev, at, status, parent.kind, parent.base)

\* The status of the stream after the reader has produced EndFbx.
AfterEndFbx ==
    IF rstatus = "open" THEN IF rdepth = 0 THEN "ended" ELSE "truncated" ELSE rstatus

\* NodeLoader::load, FbxEvent::StartNode(info) => try!(self.on_child_node(reader, info))
load_StartNode(node) ==
    /\ UNCHANGED dataVars
    /\ InLoad
    /\ rstatus = "open"
    /\ nnodes < MaxNodes
    /\ LET r == on_child_node(Top.kind, Top.st, node.name, node.props)
           parent == [Top EXCEPT !.st = r.st]
       IN /\ rdepth' = rdepth + 1
          /\ nnodes' = nnodes + 1
          /\ UNCHANGED <<rstatus, scene>>
          /\ CASE r.call.op = "ignore" ->
                    /\ stack' = Below \o <<parent, Frame(SkipKind, rdepth + 1, nnodes, 1, <<>>)>>
                    /\ UNCHANGED <<result, ret>>
               [] r.call.op = "load" ->
                    /\ stack' = Below \o <<parent, Frame(r.call.kind, rdepth + 1, nnodes, 0, r.call.st)>>
                    /\ UNCHANGED <<result, ret>>
               [] r.call.op = "err" ->
                    /\ stack' = <<>>
                    /\ result' = "Err"
                    /\ ret' = Return("on_child_node", [Top EXCEPT !.from = nnodes], FALSE, "StartNode",
                                     rdepth + 1, rstatus, Top.kind, Top.base)
               [] r.call.op = "panic" ->
                    /\ stack' = <<>>
                    /\ result' = "Panic"
                    /\ UNCHANGED ret
               [] r.call.op = "return" ->
                    /\ stack' = Below \o <<parent>>
                    /\ UNCHANGED result
                    /\ ret' = Return("on_child_node", [Top EXCEPT !.from = nnodes], TRUE, "StartNode",
                                     rdepth + 1, rstatus, Top.kind, Top.base)

\* self.on_finish() and the return of load
load_finish(ev, at, status) ==
    LET val == on_finish(Top.kind, Top.st, BorrowedDefinitions)
    IN IF val.ok
       THEN ReturnOk("load", val, ev, at, status)
       ELSE /\ result' = "Err"
            /\ ret' = Return("load", Top, FALSE, ev, at, status, "none", 0)
            /\ stack' = <<>>
            /\ UNCHANGED scene

\* NodeLoader::load, FbxEvent::EndNode => return self.on_finish()
load_EndNode ==
    /\ UNCHANGED dataVars
    /\ InLoad
    /\ rstatus = "open"
    /\ rdepth > 0
    /\ rdepth' = rdepth - 1
    /\ UNCHANGED <<nnodes, rstatus>>
    /\ load_finish("EndNode", rdepth - 1, rstatus)

\* NodeLoader::load, FbxEvent::EndFbx => return self.on_finish()
load_EndFbx ==
    /\ UNCHANGED dataVars
    /\ InLoad
    /\ rstatus' = AfterEndFbx
    /\ UNCHANGED <<nnodes, rdepth>>
    /\ load_finish("EndFbx", rdepth, AfterEndFbx)

\* The mutant does not count the nodes nested in the skipped node.
ignore_level_after_StartNode_flat(level) == level

\* ignore_current_node, FbxEvent::StartNode(_) => level += 1
ignore_level_after_StartNode(level) == level + 1

\* ignore_current_node, FbxEvent::EndNode / EndFbx => level -= 1
ignore_level_after_End(level) == level - 1

ignore_StartNode ==
    /\ UNCHANGED dataVars
    /\ InIgnore
    /\ rstatus = "open"
    /\ nnodes < MaxNodes
    /\ rdepth' = rdepth + 1
    /\ nnodes' = nnodes + 1
    /\ stack' = Below \o <<[Top EXCEPT !.level = ignore_level_after_StartNode(@)]>>
    /\ UNCHANGED <<rstatus, scene, result, ret>>

\* level -= 1; if level == 0 { return Ok(()) }
ignore_EndNode ==
    /\ UNCHANGED dataVars
    /\ InIgnore
    /\ rstatus = "open"
    /\ rdepth > 0
    /\ rdepth' = rdepth - 1
    /\ UNCHANGED <<nnodes, rstatus>>
    /\ IF ignore_level_after_End(Top.level) = 0
       THEN ReturnOk(SkipKind, Ok(<<>>), "EndNode", rdepth - 1, rstatus)
       ELSE /\ stack' = Below \o <<[Top EXCEPT !.level = ignore_level_after_End(@)]>>
            /\ UNCHANGED <<scene, result, ret>>

\* level -= 1; assert_eq!(level, 0); return Ok(())
ignore_EndFbx ==
    /\ UNCHANGED dataVars
    /\ InIgnore
    /\ rstatus' = AfterEndFbx
    /\ UNCHANGED <<nnodes, rdepth>>
    /\ IF ignore_level_after_End(Top.level) = 0
       THEN ReturnOk(SkipKind, Ok(<<>>), "EndFbx", rdepth, AfterEndFbx)
       ELSE /\ stack' = <<>>
            /\ result' = "Panic"
            /\ UNCHANGED <<scene, ret>>

\* try!(reader.next()) when the reader fails
reader_Err ==
    /\ UNCHANGED dataVars
    /\ Running
    /\ rstatus = "open"
    /\ rstatus' = "error"
    /\ result' = "Err"
    /\ stack' = <<>>
    /\ UNCHANGED <<rdepth, nnodes, scene, ret>>

\* No call is made on decoded data.
NoData ==
    /\ mesh = <<>>
    /\ before = <<>>
    /\ tri = <<>>
    /\ quad = <<>>
    /\ lookup = <<>>
    /\ identity = <<>>
    /\ pflags = <<>>
    /\ pnode = <<>>

\* load_scene(reader, fbx_version, converter) has been called
Init ==
    /\ rdepth = 0
    /\ nnodes = 0
    /\ rstatus = "open"
    /\ stack = <<Frame("FbxScene", 0, 0, 0, FbxSceneLoader_new)>>
    /\ scene = None
    /\ result = "running"
    /\ ret = NoReturn
    /\ NoData

\* ObjectsLoader::new(objects, definitions, converter).load(reader) has been
\* called, the reader standing right after the enter event of Objects.
InitObjects ==
    /\ rdepth = 1
    /\ nnodes = 1
    /\ rstatus = "open"
    /\ \E definitions \in DefinitionsChoices :
          stack = <<Frame("Objects", 1, 0, 0, ObjectsLoader_new(Objects_new, definitions))>>
    /\ scene = None
    /\ result = "running"
    /\ ret = NoReturn
    /\ NoData

Next ==
    \/ \E node \in NodesFor(IF stack = <<>> THEN "none" ELSE Top.kind) : load_StartNode(node)
    \/ load_EndNode
    \/ load_EndFbx
    \/ ignore_StartNode
    \/ ignore_EndNode
    \/ ignore_EndFbx
    \/ reader_Err

Spec == Init /\ [][Next]_vars

SpecObjects == InitObjects /\ [][Next]_vars

-----------------------------------------------------------------------------
(* What the claims speak about.                                            *)

\* The Objects store: ObjectsLoader holds it while the Objects node is being
\* loaded, the scene loader before and after, the caller once load returned.
TheObjects ==
    IF \E i \in 1..Len(stack) : stack[i].kind = "Objects"
    THEN stack[CHOOSE i \in 1..Len(stack) : stack[i].kind = "Objects"].st.objects
    ELSE IF stack # <<>> THEN stack[1].st.objects
    ELSE IF scene.some THEN scene.v.objects
    ELSE Objects_new

\* The maps of the store that have the id as a key.
MapsWith(id) == {m \in ObjectMaps : id \in DOMAIN TheObjects[m]}

\* The activation on top is consuming an exit-node event of a balanced stream.
AtEndNode == rstatus = "open" /\ rdepth' = rdepth - 1

-----------------------------------------------------------------------------
\* C1: ignore_current_node, called right after the enter event of a subtree
\* of any nesting depth, keeps its level equal to the depth it is at inside
\* the subtree, returns only on the subtree's matching exit event, returns
\* Ok, and leaves the cursor where the subtree's parent continues.
C1_skip_consumes_subtree ==
    /\ (InIgnore /\ rstatus = "open") =>
           /\ Top.level >= 1
           /\ rdepth = Top.base + Top.level - 1
    /\ (ret.fn = SkipKind /\ ret.ev = "EndNode") =>
           /\ ret.ok
           /\ ret.at = ret.base - 1

\* A skip of a subtree of at least three nodes has returned.
C1_witness ==
    /\ ret.fn = SkipKind
    /\ ret.ev = "EndNode"
    /\ ret.ok
    /\ ret.nodes >= 3
    /\ ret.at = ret.base - 1

-----------------------------------------------------------------------------
-----------------------------------------------------------------------------
\* C3 as stated: while the stream is balanced and the reader reports no error,
\* no object node makes the decode of the Objects node fail.
C3_no_object_node_fails ==
    rstatus = "open" => result \in {"running", "Ok"}

-----------------------------------------------------------------------------
\* C4 as stated: when a Deformer node of an unrecognized subclass has been
\* consumed up to its exit event, the decode goes on and the Unknown map
\* holds, under the node's id, an Unknown object with the node's id, name,
\* class and subclass.
C4_exotic_deformer_is_unknown ==
    [][(/\ InLoad
        /\ Top.kind = "NoDeformer"
        /\ AtEndNode)
       => LET p == Top.st.obj_props
              found == Get(TheObjects'.unknown, p.id)
          IN /\ result' = "running"
             /\ found.some
             /\ found.v.id = p.id
             /\ found.v.name = p.name
             /\ found.v.class = p.class
             /\ found.v.subclass = p.subclass]_vars

-----------------------------------------------------------------------------
\* One of the seven fields a Texture requires is absent after the lookup in
\* the node's own properties and then in the template defaults.
TextureFieldAbsent(st, definitions) ==
    LET defaults == Defaults(definitions, "Texture", "FbxFileTexture")
        resolved(key) == get_or_default(st.properties, defaults, T(key))
    IN \/ ~FromI64(AndThenI64(resolved("CurrentTextureBlendMode")), 4).some
       \/ ~AndThenI64(resolved("PremultiplyAlpha")).some
       \/ ~AndThenString(resolved("UVSet")).some
       \/ ~FromI64(AndThenI64(resolved("WrapModeU")), 1).some
       \/ ~FromI64(AndThenI64(resolved("WrapModeV")), 1).some
       \/ ~st.filename.some
       \/ ~st.relative_filename.some

\* C5: when the loader of a Texture node that lacks one of its required
\* fields meets the node's exit event, the decode goes on with ObjectsLoader
\* exactly as it was before the node: no map of the store has changed and the
\* cursor is where the node's next sibling starts.
C5_incomplete_texture_dropped ==
    [][(/\ InLoad
        /\ Top.kind = "Texture"
        /\ TextureFieldAbsent(Top.st, BorrowedDefinitions)
        /\ AtEndNode)
       => /\ result' = "running"
          /\ stack' = Below
          /\ TheObjects' = TheObjects
          /\ rdepth' = Top.base - 1]_vars

\* With every template default present, a Texture node with a single child
\* (so without FileName or without RelativeFilename) has been loaded and the
\* store is still empty.
C5_witness ==
    /\ ret.fn = "load"
    /\ ret.kind = "Texture"
    /\ ret.ok
    /\ ret.ev = "EndNode"
    /\ ret.nodes = 2
    /\ InLoad
    /\ Top.kind = "Objects"
    /\ DOMAIN Top.st.definitions = DOMAIN FullTemplates
    /\ Top.st.definitions[TextureKey] = FullTemplates[TextureKey]
    /\ TheObjects = Objects_new

-----------------------------------------------------------------------------
\* C6 as stated: every object id is a key of at most one map of the store.
C6_id_in_at_most_one_map ==
    \A id \in Ids : Cardinality(MapsWith(id)) <= 1

-----------------------------------------------------------------------------
(* utils::triangulate_polygon, the reference triangulator.  Coordinates    *)
(* are small integers, on which the f32 arithmetic of the code is exact.   *)

\* let vec_cross = |v1, v2| [..], with the index expressions of the code
vec_cross(v1, v2) ==
    << v1[2] * v2[3] - v1[3] * v2[2],
       v1[3] * v2[1] - v1[1] * v2[2],
       v1[1] * v2[2] - v1[2] * v2[2] >>

vec_sub(v1, v2) == << v1[1] - v2[1], v1[2] - v2[2], v1[3] - v2[3] >>

vec_dot(v1, v2) == v1[1] * v2[1] + v1[2] * v2[2] + v1[3] * v2[3]

\* vertices[poly_indices[k] as usize], for the k-th (from 0) polygon vertex
Corner(vertices, poly_indices, k) == vertices[poly_indices[k + 1] + 1]

\* n1 and n3 of the code
QuadNormal1(vertices, poly_indices) ==
    vec_cross(vec_sub(Corner(vertices, poly_indices, 0), Corner(vertices, poly_indices, 1)),
              vec_sub(Corner(vertices, poly_indices, 1), Corner(vertices, poly_indices, 2)))

QuadNormal3(vertices, poly_indices) ==
    vec_cross(vec_sub(Corner(vertices, poly_indices, 2), Corner(vertices, poly_indices, 3)),
              vec_sub(Corner(vertices, poly_indices, 3), Corner(vertices, poly_indices, 0)))

\* The outcome of a call: the number returned and the target vector, or a
\* panic (an index out of the bounds of a slice).
Returned(n, target) == [ok |-> TRUE, n |-> n, target |-> target]
Panicked == [ok |-> FALSE, n |-> 0, target |-> <<>>]

\* The mutant cuts from p0 to p2 only when the dot product is positive.
triangulate_polygon_strict(vertices, poly_indices, target) ==
    CASE Len(poly_indices) <= 2 -> Returned(0, target)
      [] Len(poly_indices) = 3 -> Returned(1, target \o <<0, 1, 2>>)
      [] Len(poly_indices) = 4 ->
           IF \E k \in 1..4 : poly_indices[k] >= Len(vertices)
           THEN Panicked
           ELSE IF vec_dot(QuadNormal1(vertices, poly_indices),
                           QuadNormal3(vertices, poly_indices)) > 0
                THEN Returned(2, target \o <<0, 1, 2, 2, 3, 0>>)
                ELSE Returned(2, target \o <<0, 1, 3, 3, 1, 2>>)
      [] OTHER -> Returned(0, target)

\* The mutant turns a triangle over.
triangulate_polygon_flipped(vertices, poly_indices, target) ==
    CASE Len(poly_indices) <= 2 -> Returned(0, target)
      [] Len(poly_indices) = 3 -> Returned(1, target \o <<0, 2, 1>>)
      [] Len(poly_indices) = 4 ->
           IF \E k \in 1..4 : poly_indices[k] >= Len(vertices)
           THEN Panicked
           ELSE IF vec_dot(QuadNormal1(vertices, poly_indices),
                           QuadNormal3(vertices, poly_indices)) >= 0
                THEN Returned(2, target \o <<0, 1, 2, 2, 3, 0>>)
                ELSE Returned(2, target \o <<0, 1, 3, 3, 1, 2>>)
      [] OTHER -> Returned(0, target)

triangulate_polygon(vertices, poly_indices, target) ==
    CASE Len(poly_indices) <= 2 -> Returned(0, target)
      [] Len(poly_indices) = 3 -> Returned(1, target \o <<0, 1, 2>>)
      [] Len(poly_indices) = 4 ->
           IF \E k \in 1..4 : poly_indices[k] >= Len(vertices)
           THEN Panicked
           ELSE IF vec_dot(QuadNormal1(vertices, poly_indices),
                           QuadNormal3(vertices, poly_indices)) >= 0
                THEN Returned(2, target \o <<0, 1, 2, 2, 3, 0>>)
                ELSE Returned(2, target \o <<0, 1, 3, 3, 1, 2>>)
      [] OTHER -> Returned(0, target)

\* Another triangulator a caller may pass: a fan around the first vertex.
RECURSIVE FanIndices(_, _)
FanIndices(n, k) ==
    IF k + 1 >= n THEN <<>> ELSE <<0, k, k + 1>> \o FanIndices(n, k + 1)

triangulate_fan(vertices, poly_indices, target) ==
    IF Len(poly_indices) < 3 THEN Returned(0, target)
    ELSE Returned(Len(poly_indices) - 2, target \o FanIndices(Len(poly_indices), 1))

Triangulators == {"triangulate_polygon", "triangulate_fan"}

\* triangulator(&self.vertices, &current_polygon_pv, &mut tri_local_indices)
triangulator(f, vertices, poly_indices, target) ==
    IF f = "triangulate_polygon" THEN triangulate_polygon(vertices, poly_indices, target)
    ELSE triangulate_fan(vertices, poly_indices, target)

-----------------------------------------------------------------------------
(* Mesh::triangulate                                                       *)

NotTriangulated(v) == [tag |-> "NotTriangulated", v |-> v]
Triangulated(v) == [tag |-> "Triangulated", v |-> v]

Direct == [tag |-> "Direct", indices |-> <<>>]
IndexToDirect(indices) == [tag |-> "IndexToDirect", indices |-> indices]

LayerElement(mapping_mode, reference_mode, data) ==
    [channel |-> 0, name |-> T(""), mapping_mode |-> mapping_mode,
     reference_mode |-> reference_mode, data |-> data]

TriangulationInfo(tri_vertex_index, tri_pvi_to_src_pvi, tri_poly_to_src_poly) ==
    [ok |-> TRUE, tri_vertex_index |-> tri_vertex_index,
     tri_pvi_to_src_pvi |-> tri_pvi_to_src_pvi,
     tri_poly_to_src_poly |-> tri_poly_to_src_poly]

\* A failed assert_eq! or an index out of bounds inside the loop
TriangulationPanic ==
    [ok |-> FALSE, tri_vertex_index |-> <<>>, tri_pvi_to_src_pvi |-> <<>>,
     tri_poly_to_src_poly |-> <<>>]

\* !current_pv as u32, for a negative i32
BitNot(x) == -x - 1

\* The mutant takes the entries after the last end-of-polygon entry for one
\* more polygon, closed by the end of the array.
RECURSIVE TriangulateFrom_closing(_, _, _, _, _, _, _)
TriangulateFrom_closing(f, vertices, pvi, i, current, poly, acc) ==
    IF i > Len(pvi) /\ current = <<>> THEN acc
    ELSE IF i <= Len(pvi) /\ pvi[i] >= 0
    THEN TriangulateFrom_closing(f, vertices, pvi, i + 1, Append(current, pvi[i]), poly, acc)
    ELSE LET current_polygon_pv == IF i > Len(pvi) THEN current
                                   ELSE Append(current, BitNot(pvi[i]))
             last == IF i > Len(pvi) THEN Len(pvi) ELSE i
             start_pv_index == (last - 1) - (Len(current_polygon_pv) - 1)
             r == triangulator(f, vertices, current_polygon_pv, <<>>)
         IN IF ~r.ok \/ r.n * 3 # Len(r.target)
               \/ \E k \in 1..Len(r.target) : r.target[k] >= Len(current_polygon_pv)
            THEN TriangulationPanic
            ELSE TriangulateFrom_closing(f, vertices, pvi, last + 1, <<>>, poly + 1,
                    TriangulationInfo(
                        acc.tri_vertex_index \o
                            [k \in 1..Len(r.target) |-> current_polygon_pv[r.target[k] + 1]],
                        acc.tri_pvi_to_src_pvi \o
                            [k \in 1..Len(r.target) |-> start_pv_index + r.target[k]],
                        acc.tri_poly_to_src_poly \o [k \in 1..r.n |-> poly]))

\* The mutant emits the source entry of a polygon vertex as it stands, the
\* end-of-polygon entry without its complement.
RECURSIVE TriangulateFrom_raw(_, _, _, _, _, _, _)
TriangulateFrom_raw(f, vertices, pvi, i, current, poly, acc) ==
    IF i > Len(pvi) THEN acc
    ELSE IF pvi[i] >= 0
    THEN TriangulateFrom_raw(f, vertices, pvi, i + 1, Append(current, pvi[i]), poly, acc)
    ELSE LET current_polygon_pv == Append(current, BitNot(pvi[i]))
             start_pv_index == (i - 1) - (Len(current_polygon_pv) - 1)
             r == triangulator(f, vertices, current_polygon_pv, <<>>)
         IN IF ~r.ok \/ r.n * 3 # Len(r.target)
               \/ \E k \in 1..Len(r.target) : r.target[k] >= Len(current_polygon_pv)
            THEN TriangulationPanic
            ELSE TriangulateFrom_raw(f, vertices, pvi, i + 1, <<>>, poly + 1,
                    TriangulationInfo(
                        acc.tri_vertex_index \o
                            [k \in 1..Len(r.target) |-> pvi[start_pv_index + r.target[k] + 1]],
                        acc.tri_pvi_to_src_pvi \o
                            [k \in 1..Len(r.target) |-> start_pv_index + r.target[k]],
                        acc.tri_poly_to_src_poly \o [k \in 1..r.n |-> poly]))

\* The mutant advances the polygon counter only past polygons that gave
\* triangles.
RECURSIVE TriangulateFrom_skipping(_, _, _, _, _, _, _)
TriangulateFrom_skipping(f, vertices, pvi, i, current, poly, acc) ==
    IF i > Len(pvi) THEN acc
    ELSE IF pvi[i] >= 0
    THEN TriangulateFrom_skipping(f, vertices, pvi, i + 1, Append(current, pvi[i]), poly, acc)
    ELSE LET current_polygon_pv == Append(current, BitNot(pvi[i]))
             start_pv_index == (i - 1) - (Len(current_polygon_pv) - 1)
             r == triangulator(f, vertices, current_polygon_pv, <<>>)
         IN IF ~r.ok \/ r.n * 3 # Len(r.target)
               \/ \E k \in 1..Len(r.target) : r.target[k] >= Len(current_polygon_pv)
            THEN TriangulationPanic
            ELSE TriangulateFrom_skipping(f, vertices, pvi, i + 1, <<>>,
                    IF r.n > 0 THEN poly + 1 ELSE poly,
                    TriangulationInfo(
                        acc.tri_vertex_index \o
                            [k \in 1..Len(r.target) |-> current_polygon_pv[r.target[k] + 1]],
                        acc.tri_pvi_to_src_pvi \o
                            [k \in 1..Len(r.target) |-> start_pv_index + r.target[k]],
                        acc.tri_poly_to_src_poly \o [k \in 1..r.n |-> poly]))

\* The loop 'all_indices from the source entry i (from 1) on: current is
\* current_polygon_pv, poly is current_poly_index, acc what has been pushed.
RECURSIVE TriangulateFrom(_, _, _, _, _, _, _)
TriangulateFrom(f, vertices, pvi, i, current, poly, acc) ==
    IF i > Len(pvi) THEN acc
    ELSE IF pvi[i] >= 0
    THEN TriangulateFrom(f, vertices, pvi, i + 1, Append(current, pvi[i]), poly, acc)
    ELSE LET current_polygon_pv == Append(current, BitNot(pvi[i]))
             start_pv_index == (i - 1) - (Len(current_polygon_pv) - 1)
             r == triangulator(f, vertices, current_polygon_pv, <<>>)
         IN IF ~r.ok \/ r.n * 3 # Len(r.target)
               \/ \E k \in 1..Len(r.target) : r.target[k] >= Len(current_polygon_pv)
            THEN TriangulationPanic
            ELSE TriangulateFrom(f, vertices, pvi, i + 1, <<>>, poly + 1,
                    TriangulationInfo(
                        acc.tri_vertex_index \o
                            [k \in 1..Len(r.target) |-> current_polygon_pv[r.target[k] + 1]],
                        acc.tri_pvi_to_src_pvi \o
                            [k \in 1..Len(r.target) |-> start_pv_index + r.target[k]],
                        acc.tri_poly_to_src_poly \o [k \in 1..r.n |-> poly]))

\* The mutant triangulates an index list that is Triangulated already.
triangulate_polygon_index_again(m, f) ==
    Some(TriangulateFrom(f, m.vertices, m.polygon_vertex_index.v, 1, <<>>, 0,
                         TriangulationInfo(<<>>, <<>>, <<>>)))

\* Mesh::triangulate_polygon_index: None unless the index is NotTriangulated
triangulate_polygon_index(m, f) ==
    IF m.polygon_vertex_index.tag = "NotTriangulated"
    THEN Some(TriangulateFrom(f, m.vertices, m.polygon_vertex_index.v, 1, <<>>, 0,
                              TriangulationInfo(<<>>, <<>>, <<>>)))
    ELSE None

\* The mutant leaves out the last entry of the map.
Remap_short(data, map) == [k \in 1..(Len(map) - 1) |-> data[map[k] + 1]]

\* map.iter().map(|&i| data[i as usize]).collect()
Remap(data, map) == [k \in 1..Len(map) |-> data[map[k] + 1]]

\* Some data[i as usize] of the remap is out of bounds.
RemapPanics(data, map) == \E k \in 1..Len(map) : map[k] >= Len(data)

PolygonModes == {"ByPolygonVertex", "ByPolygon"}

\* The map update_layer_elements applies to a layer element of the mode.
MapOf(le, tri_pvi_to_src_pvi, tri_poly_to_src_poly) ==
    IF le.mapping_mode = "ByPolygonVertex" THEN tri_pvi_to_src_pvi ELSE tri_poly_to_src_poly

\* The mutant remaps ByControlPoint elements like ByPolygonVertex ones.
update_layer_element_control_point(le, tri_pvi_to_src_pvi, tri_poly_to_src_poly) ==
    LET map == IF le.mapping_mode = "ByPolygon" THEN tri_poly_to_src_poly
               ELSE tri_pvi_to_src_pvi
    IN IF le.mapping_mode \notin {"ByPolygonVertex", "ByPolygon", "ByControlPoint"} THEN le
       ELSE IF le.reference_mode.tag = "Direct"
       THEN IF le.data.some /\ ~RemapPanics(le.data.v, map)
            THEN [le EXCEPT !.data = Some(Remap(le.data.v, map))]
            ELSE le
       ELSE IF RemapPanics(le.reference_mode.indices, map) THEN le
       ELSE [le EXCEPT !.reference_mode = IndexToDirect(Remap(le.reference_mode.indices, map))]

\* The mutant remaps the data of an IndexToDirect element along with its
\* indices.
update_layer_element_data_too(le, tri_pvi_to_src_pvi, tri_poly_to_src_poly) ==
    LET map == IF le.mapping_mode = "ByPolygonVertex" THEN tri_pvi_to_src_pvi
               ELSE tri_poly_to_src_poly
        data == IF le.data.some /\ ~RemapPanics(le.data.v, map)
                THEN Some(Remap(le.data.v, map)) ELSE le.data
    IN IF le.mapping_mode \notin PolygonModes THEN le
       ELSE IF le.reference_mode.tag = "Direct"
       THEN IF le.data.some THEN [le EXCEPT !.data = Some(Remap(le.data.v, map))] ELSE le
       ELSE [le EXCEPT !.reference_mode = IndexToDirect(Remap(le.reference_mode.indices, map)),
                       !.data = data]

\* The mutant remaps ByPolygon elements by the polygon vertex map.
update_layer_element_by_vertex(le, tri_pvi_to_src_pvi, tri_poly_to_src_poly) ==
    IF le.mapping_mode \notin PolygonModes THEN le
    ELSE IF le.reference_mode.tag = "Direct"
    THEN IF le.data.some /\ ~RemapPanics(le.data.v, tri_pvi_to_src_pvi)
         THEN [le EXCEPT !.data = Some(Remap(le.data.v, tri_pvi_to_src_pvi))]
         ELSE le
    ELSE IF RemapPanics(le.reference_mode.indices, tri_pvi_to_src_pvi) THEN le
    ELSE [le EXCEPT !.reference_mode =
             IndexToDirect(Remap(le.reference_mode.indices, tri_pvi_to_src_pvi))]

\* The mutant remaps every element by the triangle to source polygon map.
update_layer_element_by_polygon(le, tri_pvi_to_src_pvi, tri_poly_to_src_poly) ==
    IF le.mapping_mode \notin PolygonModes THEN le
    ELSE IF le.reference_mode.tag = "Direct"
    THEN IF le.data.some
         THEN [le EXCEPT !.data = Some(Remap(le.data.v, tri_poly_to_src_poly))]
         ELSE le
    ELSE [le EXCEPT !.reference_mode =
             IndexToDirect(Remap(le.reference_mode.indices, tri_poly_to_src_poly))]

\* The body of the loop of update_layer_elements, for an element it does not
\* panic on.
update_layer_element(le, tri_pvi_to_src_pvi, tri_poly_to_src_poly) ==
    IF le.mapping_mode \notin PolygonModes THEN le
    ELSE IF le.reference_mode.tag = "Direct"
    THEN IF le.data.some
         THEN [le EXCEPT !.data =
                  Some(Remap(le.data.v, MapOf(le, tri_pvi_to_src_pvi, tri_poly_to_src_poly)))]
         ELSE le
    ELSE [le EXCEPT !.reference_mode =
             IndexToDirect(Remap(le.reference_mode.indices,
                                 MapOf(le, tri_pvi_to_src_pvi, tri_poly_to_src_poly)))]

\* The indexing of the loop body goes out of bounds.
update_layer_element_panics(le, tri_pvi_to_src_pvi, tri_poly_to_src_poly) ==
    /\ le.mapping_mode \in PolygonModes
    /\ IF le.reference_mode.tag = "Direct"
       THEN le.data.some
            /\ RemapPanics(le.data.v, MapOf(le, tri_pvi_to_src_pvi, tri_poly_to_src_poly))
       ELSE RemapPanics(le.reference_mode.indices,
                        MapOf(le, tri_pvi_to_src_pvi, tri_poly_to_src_poly))

update_layer_elements(layer_elements, tri_pvi_to_src_pvi, tri_poly_to_src_poly) ==
    [k \in 1..Len(layer_elements) |->
        update_layer_element(layer_elements[k], tri_pvi_to_src_pvi, tri_poly_to_src_poly)]

LayerElementsOf(m) ==
    m.layer_element_materials \o m.layer_element_normals \o m.layer_element_uvs

\* Mesh::triangulate: the mesh after the call, what triangulate_polygon_index
\* returned, and whether the call returned at all.
Mesh_triangulate(m, f) ==
    LET found == triangulate_polygon_index(m, f)
    IN IF ~found.some THEN [ok |-> TRUE, mesh |-> m, info |-> found]
       ELSE LET s == found.v.tri_pvi_to_src_pvi
                p == found.v.tri_poly_to_src_poly
            IN IF ~found.v.ok
                  \/ \E k \in 1..Len(LayerElementsOf(m)) :
                        update_layer_element_panics(LayerElementsOf(m)[k], s, p)
               THEN [ok |-> FALSE, mesh |-> m, info |-> found]
               ELSE [ok |-> TRUE,
                     mesh |-> [m EXCEPT
                         !.polygon_vertex_index = Triangulated(found.v.tri_vertex_index),
                         !.layer_element_materials = update_layer_elements(@, s, p),
                         !.layer_element_normals = update_layer_elements(@, s, p),
                         !.layer_element_uvs = update_layer_elements(@, s, p)],
                     info |-> found]

-----------------------------------------------------------------------------
(* Meshes triangulate is called on.                                        *)

\* Largest number of calls of triangulate on one mesh.
MaxCalls == 2

UnitSquare == << <<0, 0, 0>>, <<1, 0, 0>>, <<1, 1, 0>>, <<0, 1, 0>> >>

\* A quad with a reflex angle at its third vertex.
Dart == << <<0, 0, 0>>, <<2, 0, 0>>, <<1, 1, 0>>, <<0, 2, 0>> >>

\* Polygon vertex index arrays as decoded: the last index of a polygon is
\* stored as its one's complement.
SourceIndexArrays ==
    { <<0, 1, 2, -4>>, <<3, 2, 1, -1>>, <<0, 1, -3>>, <<0, 1, -3, 1, 2, -4>>,
      <<0, 1, 2, -4, 0, 1, -3>>, <<0, -2>>, <<0, 1, 2, 3, -1>>, <<0, 1, -3, 3>>,
      <<0, 1, 2, 3>>, <<0, -2, 0, 1, -3>>, <<0, 1, -3, 3, 2, 1>>, <<>> }

TriangulatedIndexArrays == { <<>>, <<0, 1, 2>>, <<0, 1, 2, 2, 3, 0>> }

VertexIndexChoices ==
    {NotTriangulated(v) : v \in SourceIndexArrays}
    \cup {Triangulated(v) : v \in TriangulatedIndexArrays}

MappingModeNames ==
    {"None", "ByControlPoint", "ByPolygonVertex", "ByPolygon", "ByEdge", "AllSame"}

\* Element k of the data of a layer element with n elements.
Datum(k) == 10 + k

FullData(n) == [k \in 1..n |-> Datum(k - 1)]

\* Layer elements for an index array of n entries: data for every entry or
\* for the first entry only or none, used directly or through indices that
\* run backwards.
LayerElementChoices(n) ==
    { LayerElement(mode, reference_mode, data) :
        mode \in MappingModeNames,
        reference_mode \in {Direct, IndexToDirect([k \in 1..n |-> n - k])},
        data \in {None, Some(FullData(n)), Some(FullData(1))} }

\* The number of polygons of an index array: one for each closing entry.
NumPolygons(v) == Cardinality({j \in 1..Len(v) : v[j] < 0})

\* The normals have an entry for each polygon vertex or for each polygon.
MeshChoices ==
    UNION { { [vertices |-> vertices, polygon_vertex_index |-> index,
               layer_element_materials |-> materials,
               layer_element_normals |-> <<normal>>,
               layer_element_uvs |-> uvs, layers |-> <<>>] :
                 vertices \in {UnitSquare, Dart},
                 normal \in LayerElementChoices(Len(index.v))
                               \cup LayerElementChoices(NumPolygons(index.v)),
                 materials \in { <<>>, <<LayerElement("ByPolygon",
                                     IndexToDirect([k \in 1..Len(index.v) |-> 0]), None)>> },
                 uvs \in { <<>>, <<LayerElement("ByPolygonVertex",
                               IndexToDirect([k \in 1..Len(index.v) |-> k - 1]),
                               Some(FullData(Len(index.v))))>> } } :
            index \in VertexIndexChoices }

\* No decode is running.
NoDecode ==
    /\ rdepth = 0
    /\ nnodes = 0
    /\ rstatus = "idle"
    /\ stack = <<>>
    /\ scene = None
    /\ result = "idle"
    /\ ret = NoReturn

NoCall == [calls |-> 0, f |-> "none", ok |-> TRUE, info |-> None]

InitMesh ==
    /\ NoDecode
    /\ mesh \in MeshChoices
    /\ before = mesh
    /\ tri = NoCall
    /\ quad = <<>>
    /\ lookup = <<>>
    /\ identity = <<>>
    /\ pflags = <<>>
    /\ pnode = <<>>

\* mesh.triangulate(f)
triangulate(f) ==
    /\ tri.calls < MaxCalls
    /\ tri.ok
    /\ LET r == Mesh_triangulate(mesh, f)
       IN /\ mesh' = r.mesh
          /\ before' = mesh
          /\ tri' = [calls |-> tri.calls + 1, f |-> f, ok |-> r.ok, info |-> r.info]
    /\ UNCHANGED <<quad, lookup, identity, pflags, pnode>>
    /\ UNCHANGED decodeVars

NextMesh == \E f \in Triangulators : triangulate(f)

SpecMesh == InitMesh /\ [][NextMesh]_vars

-----------------------------------------------------------------------------
(* Calls of utils::triangulate_polygon on quads of a small integer grid.   *)

\* Coordinates are 0..MaxCoord.
MaxCoord == 1

Grid == {<<x, y, z>> : x \in 0..MaxCoord, y \in 0..MaxCoord, z \in 0..MaxCoord}

\* poly_indices and the content of target before the call: quads, a
\* triangle, polygons of 2 and of 5 vertices, a quad with an index that is
\* not an index of vertices.
PolygonCalls ==
    { <<<<0, 1, 2, 3>>, <<>>>>, <<<<0, 1, 2, 3>>, <<7>>>>, <<<<3, 1, 0, 2>>, <<>>>>,
      <<<<0, 1, 2>>, <<7>>>>, <<<<0, 1>>, <<>>>>, <<<<0, 1, 2, 3, 0>>, <<>>>>,
      <<<<0, 1, 2, 4>>, <<>>>> }

InitQuad ==
    /\ NoDecode
    /\ mesh = <<>>
    /\ before = <<>>
    /\ tri = <<>>
    /\ lookup = <<>>
    /\ identity = <<>>
    /\ pflags = <<>>
    /\ pnode = <<>>
    /\ \E vertices \in [1..4 -> Grid], call \in PolygonCalls :
          quad = [vertices |-> vertices, poly_indices |-> call[1], target |-> call[2],
                  done |-> FALSE, out |-> Returned(0, <<>>)]

\* let n = triangulate_polygon(&vertices, &poly_indices, &mut target)
call_triangulate_polygon ==
    /\ ~quad.done
    /\ quad' = [quad EXCEPT
                   !.done = TRUE,
                   !.out = triangulate_polygon(quad.vertices, quad.poly_indices, quad.target)]
    /\ UNCHANGED <<mesh, before, tri, lookup, identity, pflags, pnode>>
    /\ UNCHANGED decodeVars

NextQuad == call_triangulate_polygon

SpecQuad == InitQuad /\ [][NextQuad]_vars

-----------------------------------------------------------------------------
(* Calls of get_or_default.                                                *)

LookupKeys == {T("Size"), T("Show")}

LookupRecords ==
    { PropertyOf(PCells("Size", "double", "Number", "", <<F64(100)>>)),
      PropertyOf(PCells("Show", "bool", "", "", <<I32(1)>>)) }

\* Nothing, or a map from some of the keys to records.
LookupMaps ==
    {None} \cup {Some(m) : m \in UNION {[D -> LookupRecords] : D \in SUBSET LookupKeys}}

InitLookup ==
    /\ NoDecode
    /\ mesh = <<>>
    /\ before = <<>>
    /\ tri = <<>>
    /\ quad = <<>>
    /\ identity = <<>>
    /\ pflags = <<>>
    /\ pnode = <<>>
    /\ \E properties \in LookupMaps, defaults \in LookupMaps,
          key \in LookupKeys \cup {T("Color")} :
          lookup = [properties |-> properties, defaults |-> defaults, key |-> key,
                    done |-> FALSE, found |-> None]

\* self.properties.get_or_default(defaults, key)
call_get_or_default ==
    /\ ~lookup.done
    /\ lookup' = [lookup EXCEPT
                     !.done = TRUE,
                     !.found = get_or_default(lookup.properties, lookup.defaults, lookup.key)]
    /\ UNCHANGED <<mesh, before, tri, quad, identity, pflags, pnode>>
    /\ UNCHANGED decodeVars

NextLookup == call_get_or_default

SpecLookup == InitLookup /\ [][NextLookup]_vars

-----------------------------------------------------------------------------
\* C7: a call of triangulate on a mesh whose index list is Triangulated
\* returns and leaves the whole mesh as it was, and so does a second call of
\* triangulate, with whatever triangulator, after a first one that returned.
C7_triangulated_mesh_unchanged ==
    /\ (tri.calls >= 1 /\ before.polygon_vertex_index.tag = "Triangulated") =>
           /\ tri.ok
           /\ mesh = before
    /\ (tri.calls >= 1 /\ tri.ok) => mesh.polygon_vertex_index.tag = "Triangulated"
    /\ (tri.calls >= 2 /\ tri.ok) => mesh = before

\* A second call has returned on a triangulated quad with normals per
\* polygon vertex.
C7_witness ==
    /\ tri.calls = 2
    /\ tri.ok
    /\ mesh = before
    /\ mesh.polygon_vertex_index = Triangulated(<<0, 1, 2, 2, 3, 0>>)
    /\ mesh.layer_element_normals[1].mapping_mode = "ByPolygonVertex"
    /\ mesh.layer_element_normals[1].data.some

-----------------------------------------------------------------------------
\* The control point a source entry of the index array stands for.
ControlPoint(x) == IF x < 0 THEN BitNot(x) ELSE x

\* C8: after a call of triangulate that triangulated the mesh, with s the
\* map from triangulated polygon vertices to source polygon vertices (entry k
\* of the new index list is the control point of source entry s(k)), every
\* layer element that was ByPolygonVertex and Direct with data has, at every
\* output position k, the old datum of position s(k); the quad [0,1,2,3] cut
\* along 0-2 with data [n0,n1,n2,n3] gets [n0,n1,n2,n2,n3,n0].
C8_direct_data_follows_source_vertex ==
    (tri.calls >= 1 /\ tri.ok /\ tri.info.some) =>
        LET s == tri.info.v.tri_pvi_to_src_pvi
            old == LayerElementsOf(before)
            new == LayerElementsOf(mesh)
        IN /\ Len(s) = Len(mesh.polygon_vertex_index.v)
           /\ \A k \in 1..Len(s) :
                 mesh.polygon_vertex_index.v[k] =
                     ControlPoint(before.polygon_vertex_index.v[s[k] + 1])
           /\ \A j \in 1..Len(old) :
                 (/\ old[j].mapping_mode = "ByPolygonVertex"
                  /\ old[j].reference_mode.tag = "Direct"
                  /\ old[j].data.some)
                 => /\ new[j].data.some
                    /\ Len(new[j].data.v) = Len(s)
                    /\ \A k \in 1..Len(s) : new[j].data.v[k] = old[j].data.v[s[k] + 1]
                    /\ (/\ before.polygon_vertex_index.v = <<0, 1, 2, -4>>
                        /\ mesh.polygon_vertex_index.v = <<0, 1, 2, 2, 3, 0>>
                        /\ old[j].data.v = <<Datum(0), Datum(1), Datum(2), Datum(3)>>)
                       => new[j].data.v = <<Datum(0), Datum(1), Datum(2),
                                            Datum(2), Datum(3), Datum(0)>>

\* The quad [0,1,2,3] with one normal per polygon vertex has been cut along
\* the 0-2 diagonal.
C8_witness ==
    /\ tri.calls = 1
    /\ tri.ok
    /\ before.polygon_vertex_index = NotTriangulated(<<0, 1, 2, -4>>)
    /\ before.layer_element_normals[1] =
           LayerElement("ByPolygonVertex", Direct, Some(FullData(4)))
    /\ mesh.polygon_vertex_index = Triangulated(<<0, 1, 2, 2, 3, 0>>)
    /\ mesh.layer_element_normals[1].data =
           Some(<<Datum(0), Datum(1), Datum(2), Datum(2), Datum(3), Datum(0)>>)

-----------------------------------------------------------------------------
\* The cross product of two vectors, and with it the normals at corners 1
\* and 3 of the quad: (p0 - p1) x (p1 - p2) and (p2 - p3) x (p3 - p0).
cross_product(v1, v2) ==
    << v1[2] * v2[3] - v1[3] * v2[2],
       v1[3] * v2[1] - v1[1] * v2[3],
       v1[1] * v2[2] - v1[2] * v2[1] >>

CornerNormal1(vertices, poly_indices) ==
    cross_product(vec_sub(Corner(vertices, poly_indices, 0), Corner(vertices, poly_indices, 1)),
                  vec_sub(Corner(vertices, poly_indices, 1), Corner(vertices, poly_indices, 2)))

CornerNormal3(vertices, poly_indices) ==
    cross_product(vec_sub(Corner(vertices, poly_indices, 2), Corner(vertices, poly_indices, 3)),
                  vec_sub(Corner(vertices, poly_indices, 3), Corner(vertices, poly_indices, 0)))

\* C9: a call of triangulate_polygon on four polygon vertices, all of them
\* indices of vertices, returns 2 and appends to target exactly 0,1,2,2,3,0
\* when the dot product of the normals at corners 1 and 3 is not negative
\* and 0,1,3,3,1,2 when it is negative; on the unit square it appends
\* 0,1,2,2,3,0.
C9_quad_cut ==
    (quad.done /\ Len(quad.poly_indices) = 4 /\ quad.out.ok) =>
        /\ quad.out.n = 2
        /\ quad.out.target =
               quad.target \o
               (IF vec_dot(CornerNormal1(quad.vertices, quad.poly_indices),
                           CornerNormal3(quad.vertices, quad.poly_indices)) >= 0
                THEN <<0, 1, 2, 2, 3, 0>>
                ELSE <<0, 1, 3, 3, 1, 2>>)
        /\ (quad.vertices = UnitSquare /\ quad.poly_indices = <<0, 1, 2, 3>>) =>
               quad.out.target = quad.target \o <<0, 1, 2, 2, 3, 0>>

-----------------------------------------------------------------------------
\* C10: get_or_default returns the record of the instance map when there is
\* an instance map and it has the key; else the record of the defaults when
\* there are defaults and they have the key; else nothing.
C10_instance_then_template ==
    lookup.done =>
        LET in_instance == lookup.properties.some /\ lookup.key \in DOMAIN lookup.properties.v
            in_defaults == lookup.defaults.some /\ lookup.key \in DOMAIN lookup.defaults.v
        IN /\ in_instance => lookup.found = Some(lookup.properties.v[lookup.key])
           /\ (~in_instance /\ in_defaults) => lookup.found = Some(lookup.defaults.v[lookup.key])
           /\ (~in_instance /\ ~in_defaults) => lookup.found = None

\* The instance map and the defaults hold different records for the key and
\* the record of the instance map has been returned.
C10_witness ==
    /\ lookup.done
    /\ lookup.properties.some
    /\ lookup.defaults.some
    /\ lookup.key \in DOMAIN lookup.properties.v
    /\ lookup.key \in DOMAIN lookup.defaults.v
    /\ lookup.properties.v[lookup.key] # lookup.defaults.v[lookup.key]
    /\ lookup.found = Some(lookup.properties.v[lookup.key])

-----------------------------------------------------------------------------
(* Calls of ObjectProperties::from_node_properties.                        *)

\* Largest number of property cells of the node.
MaxCells == 3

\* Combined name/class strings: one separator, none, the two bytes apart or
\* in the other order, two separators, a separator alone, a NUL before the
\* separator, the empty string.
NameClassStrings ==
    { <<"Box", NUL, SOH, "Model">>, <<"Box">>, <<"Box", NUL, "Model">>,
      <<"Box", SOH, NUL, "Model">>, <<"A", NUL, SOH, "B", NUL, SOH, "C">>,
      <<NUL, SOH>>, <<NUL, NUL, SOH, "M">>, <<>> }

IdentityCells ==
    {I64(1), I32(1), Bin(<<1>>)} \cup {Str(x) : x \in NameClassStrings}

IdentityProps == UNION {[1..n -> IdentityCells] : n \in 0..MaxCells}

InitIdentity ==
    /\ NoDecode
    /\ mesh = <<>>
    /\ before = <<>>
    /\ tri = <<>>
    /\ quad = <<>>
    /\ lookup = <<>>
    /\ pflags = <<>>
    /\ pnode = <<>>
    /\ \E props \in IdentityProps :
          identity = [props |-> props, done |-> FALSE, out |-> None]

\* ObjectProperties::from_node_properties(properties.iter())
call_from_node_properties ==
    /\ ~identity.done
    /\ identity' = [identity EXCEPT
                       !.done = TRUE,
                       !.out = ObjectProperties_from_node_properties(identity.props)]
    /\ UNCHANGED <<mesh, before, tri, quad, lookup, pflags, pnode>>
    /\ UNCHANGED decodeVars

NextIdentity == call_from_node_properties

SpecIdentity == InitIdentity /\ [][NextIdentity]_vars

-----------------------------------------------------------------------------
\* s has the separator NUL,SOH at position i and at no position before i.
FirstSeparatorAt(s, i) ==
    /\ i \in 1..(Len(s) - 1)
    /\ s[i] = NUL /\ s[i + 1] = SOH
    /\ \A j \in 1..(i - 1) : ~(s[j] = NUL /\ s[j + 1] = SOH)

\* C11: from_node_properties yields an identity exactly when the first cell
\* is a 64-bit integer, the second a string holding the separator NUL,SOH
\* and the third a string; the identity then has the id of the first cell,
\* as name what precedes the first separator, as class what follows it, and
\* the third cell as subclass; "Box" NUL SOH "Model" gives name "Box" and
\* class "Model".
C11_identity_split_at_first_separator ==
    identity.done =>
        LET p == identity.props
            cells == Len(p) >= 3 /\ p[1].t = "I64" /\ p[2].t = "Str" /\ p[3].t = "Str"
        IN /\ identity.out.some <=>
                  (cells /\ \E i \in 1..Len(p[2].s) : FirstSeparatorAt(p[2].s, i))
           /\ identity.out.some =>
                  \E i \in 1..Len(p[2].s) :
                      /\ FirstSeparatorAt(p[2].s, i)
                      /\ identity.out.v.id = p[1].a[1]
                      /\ identity.out.v.name = SubSeq(p[2].s, 1, i - 1)
                      /\ identity.out.v.class = SubSeq(p[2].s, i + 2, Len(p[2].s))
                      /\ identity.out.v.subclass = p[3].s
           /\ (cells /\ p[2].s = <<"Box", NUL, SOH, "Model">>) =>
                  /\ identity.out.some
                  /\ identity.out.v.name = <<"Box">>
                  /\ identity.out.v.class = <<"Model">>

\* An identity has been extracted from a string with two separators.
C11_witness ==
    /\ identity.done
    /\ Len(identity.props) = 3
    /\ identity.props[2] = Str(<<"A", NUL, SOH, "B", NUL, SOH, "C">>)
    /\ identity.out.some
    /\ identity.out.v.name = <<"A">>
    /\ identity.out.v.class = <<"B", NUL, SOH, "C">>

-----------------------------------------------------------------------------
\* A load of a top-level node of the given kind returns Ok to the scene
\* loader in this step.
DecodedAtTopLevel(kind) ==
    /\ ret'.fn = "load"
    /\ ret'.kind = kind
    /\ ret'.ok
    /\ ret'.handler = "FbxScene"

\* C12: the scene loader holds a header extension (connections) exactly when
\* a top-level FBXHeaderExtension (Connections) node has been decoded; and
\* when the stream ends at the top level, load_scene returns a scene if it
\* holds both and an error otherwise.
C12_required_sections ==
    [][ /\ (stack # <<>> /\ stack' # <<>>) =>
              /\ stack'[1].st.fbx_header_extension.some <=>
                     \/ stack[1].st.fbx_header_extension.some
                     \/ DecodedAtTopLevel("FbxHeaderExtension")
              /\ stack'[1].st.connections.some <=>
                     \/ stack[1].st.connections.some
                     \/ DecodedAtTopLevel("Connections")
        /\ (Len(stack) = 1 /\ rstatus = "open" /\ rstatus' = "ended") =>
              IF stack[1].st.fbx_header_extension.some /\ stack[1].st.connections.some
              THEN result' = "Ok" /\ scene'.some
              ELSE result' = "Err" /\ ~scene'.some ]_vars

\* load_scene has returned a scene for a stream of a header extension and
\* connections, without an Objects node.
C12_witness ==
    /\ result = "Ok"
    /\ rstatus = "ended"
    /\ nnodes = 2
    /\ scene.some
    /\ scene.v.objects = Objects_new

-----------------------------------------------------------------------------
\* C13: ignore_current_node never returns Ok on the end of the stream: the
\* end of the stream reaches it only inside the node it skips, at a nesting
\* level of 1 or more.
C13_skip_fails_at_end_of_stream ==
    (ret.fn = SkipKind /\ ret.ev = "EndFbx") => ~ret.ok

-----------------------------------------------------------------------------
\* The store of objects holds an object: an object decoder has run.
ObjectDecoded(objects) == \E m \in ObjectMaps : objects[m] # EmptyMap

\* The load of a top-level Definitions node returns Ok in this step, and the
\* scene loader assigns the store it built to self.definitions.
DefinitionsAssigned ==
    /\ Len(stack) = 2
    /\ stack[1].kind = "FbxScene"
    /\ stack[2].kind = "Definitions"
    /\ Len(stack') = 1

\* C14: the scene loader does not assign its store of definitions once the
\* store of objects holds a decoded object.
C14_no_definitions_write_after_object ==
    [][ DefinitionsAssigned => ~ObjectDecoded(stack[1].st.objects) ]_vars

-----------------------------------------------------------------------------
(* property::flags::PropertyFlags, a u32 of bit flags.  No operation of    *)
(* the code produces a bit above bit 10, so the u32 arithmetic is exact.   *)

RECURSIVE BitAnd(_, _)
\* x & y
BitAnd(x, y) ==
    IF x = 0 \/ y = 0 THEN 0
    ELSE (x % 2) * (y % 2) + 2 * BitAnd(x \div 2, y \div 2)

RECURSIVE BitOr(_, _)
\* x | y
BitOr(x, y) ==
    IF x = 0 THEN y
    ELSE IF y = 0 THEN x
    ELSE (IF x % 2 = 1 \/ y % 2 = 1 THEN 1 ELSE 0) + 2 * BitOr(x \div 2, y \div 2)

RECURSIVE BitAndNot(_, _)
\* x & !y
BitAndNot(x, y) ==
    IF x = 0 THEN 0
    ELSE (x % 2) * (1 - (y % 2)) + 2 * BitAndNot(x \div 2, y \div 2)

\* const ANIMATABLE: u32 = 1_u32 << 1
ANIMATABLE == 2
\* const ANIMATED: u32 = 1_u32 << 2
ANIMATED == 4
\* const USER_DEFINED: u32 = 1_u32 << 4
USER_DEFINED == 16
\* const HIDDEN: u32 = 1_u32 << 4
HIDDEN == 16
\* const LOCKED_MEMBER_SHIFT: u8 = 7
LOCKED_MEMBER_SHIFT == 7

\* x << n
ShiftLeft(x, n) == x * 2^n

\* PropertyFlags::none()
PropertyFlags_none == 0

set_animatable(self, value) ==
    IF value THEN BitOr(self, ANIMATABLE) ELSE BitAndNot(self, ANIMATABLE)

\* The mutant sets the Animated bit alone.
set_animated_alone(self, value) ==
    IF value THEN BitOr(self, ANIMATED) ELSE BitAndNot(self, ANIMATED)

set_animated(self, value) ==
    IF value THEN BitOr(BitOr(self, ANIMATABLE), ANIMATED)
    ELSE BitAndNot(self, ANIMATED)

set_user_defined(self, value) ==
    IF value THEN BitOr(self, USER_DEFINED) ELSE BitAndNot(self, USER_DEFINED)

set_hidden(self, value) ==
    IF value THEN BitOr(self, HIDDEN) ELSE BitAndNot(self, HIDDEN)

\* assert!(members <= 15, ..); if members >= 10 { panic!(..) }
set_locked_member_panics(members) == members > 15 \/ members >= 10

\* PropertyFlags((self.0 & 15 << LOCKED_MEMBER_SHIFT) | ((members as u32) << LOCKED_MEMBER_SHIFT)):
\* << binds tighter than &
set_locked_member(self, members) ==
    BitOr(BitAnd(self, ShiftLeft(15, LOCKED_MEMBER_SHIFT)),
          ShiftLeft(members, LOCKED_MEMBER_SHIFT))

\* The characters '0'...'9' and code as u32 - '0' as u32
Digits == {"0", "1", "2", "3", "4", "5", "6", "7", "8", "9"}
DigitValue(code) ==
    CASE code = "0" -> 0 [] code = "1" -> 1 [] code = "2" -> 2 [] code = "3" -> 3
      [] code = "4" -> 4 [] code = "5" -> 5 [] code = "6" -> 6 [] code = "7" -> 7
      [] code = "8" -> 8 [] OTHER -> 9

\* A PropertyFlags value returned, or a panic.
FlagsOk(v) == [ok |-> TRUE, v |-> v]
FlagsPanic == [ok |-> FALSE, v |-> 0]

\* The mutant takes the character after 'L' as the member count position
\* whatever it is: a character that is no digit is consumed with the 'L'.
RECURSIVE from_string_loop_swallow(_, _, _)
from_string_loop_swallow(flags_str, i, flags_ret) ==
    IF i > Len(flags_str) THEN FlagsOk(flags_ret)
    ELSE LET c == flags_str[i]
             peek == IF i + 1 <= Len(flags_str) THEN flags_str[i + 1] ELSE "end"
         IN CASE c = "U" -> from_string_loop_swallow(flags_str, i + 1, set_user_defined(flags_ret, TRUE))
              [] c = "A" ->
                   IF peek = "+"
                   THEN from_string_loop_swallow(flags_str, i + 2,
                                         set_animated(set_animatable(flags_ret, TRUE), TRUE))
                   ELSE from_string_loop_swallow(flags_str, i + 1, set_animatable(flags_ret, TRUE))
              [] c = "H" -> from_string_loop_swallow(flags_str, i + 1, set_hidden(flags_ret, TRUE))
              [] c = "L" ->
                   IF peek \in Digits
                   THEN IF set_locked_member_panics(DigitValue(peek)) THEN FlagsPanic
                        ELSE from_string_loop_swallow(flags_str, i + 2,
                                              set_locked_member(flags_ret, DigitValue(peek)))
                   ELSE from_string_loop_swallow(flags_str, i + 2, flags_ret)
              [] OTHER -> from_string_loop_swallow(flags_str, i + 1, flags_ret)

RECURSIVE from_string_loop(_, _, _)
\* The loop of PropertyFlags::from_string: c is the character at position i
\* of flags_str (None past the end), flags_ret the variable ret of the code.
from_string_loop(flags_str, i, flags_ret) ==
    IF i > Len(flags_str) THEN FlagsOk(flags_ret)
    ELSE LET c == flags_str[i]
             peek == IF i + 1 <= Len(flags_str) THEN flags_str[i + 1] ELSE "end"
         IN CASE c = "U" -> from_string_loop(flags_str, i + 1, set_user_defined(flags_ret, TRUE))
              [] c = "A" ->
                   IF peek = "+"
                   THEN from_string_loop(flags_str, i + 2,
                                         set_animated(set_animatable(flags_ret, TRUE), TRUE))
                   ELSE from_string_loop(flags_str, i + 1, set_animatable(flags_ret, TRUE))
              [] c = "H" -> from_string_loop(flags_str, i + 1, set_hidden(flags_ret, TRUE))
              [] c = "L" ->
                   IF peek \in Digits
                   THEN IF set_locked_member_panics(DigitValue(peek)) THEN FlagsPanic
                        ELSE from_string_loop(flags_str, i + 2,
                                              set_locked_member(flags_ret, DigitValue(peek)))
                   ELSE from_string_loop(flags_str, i + 1, flags_ret)
              [] OTHER -> from_string_loop(flags_str, i + 1, flags_ret)

\* PropertyFlags::from_string(flags_str)
from_string(flags_str) == from_string_loop(flags_str, 1, PropertyFlags_none)

-----------------------------------------------------------------------------
(* Calls on a PropertyFlags value, starting from PropertyFlags::none().    *)

\* Longest flag string.
MaxFlagChars == 4

FlagChars == {"U", "A", "+", "H", "L", "3", "7", "x"}

FlagStrings ==
    UNION {[1..n -> FlagChars] : n \in 0..MaxFlagChars} \cup {<<"U", "A", "+", "H", "L", "7">>}

\* Arguments of set_locked_member, a u8.
MemberCounts == {0, 1, 3, 7, 9, 10, 15, 16, 255}

\* The latest call, its arguments, the value before it and the value it
\* returned; plain tells that the value was made from none() by calls of
\* set_animated and set_animatable(true) only.
FlagsCall(op, b, members, str, prev, out, plain) ==
    [op |-> op, b |-> b, members |-> members, str |-> str, prev |-> prev,
     v |-> out.v, ok |-> out.ok, plain |-> plain]

InitFlags ==
    /\ NoDecode
    /\ mesh = <<>>
    /\ before = <<>>
    /\ tri = <<>>
    /\ quad = <<>>
    /\ lookup = <<>>
    /\ identity = <<>>
    /\ pflags = FlagsCall("none", FALSE, 0, <<>>, PropertyFlags_none,
                          FlagsOk(PropertyFlags_none), TRUE)
    /\ pnode = <<>>

FlagsUnchanged ==
    /\ UNCHANGED <<mesh, before, tri, quad, lookup, identity, pnode>>
    /\ UNCHANGED decodeVars

call_set_animatable(value) ==
    /\ pflags.ok
    /\ pflags' = FlagsCall("set_animatable", value, 0, <<>>, pflags.v,
                           FlagsOk(set_animatable(pflags.v, value)), pflags.plain /\ value)
    /\ FlagsUnchanged

call_set_animated(value) ==
    /\ pflags.ok
    /\ pflags' = FlagsCall("set_animated", value, 0, <<>>, pflags.v,
                           FlagsOk(set_animated(pflags.v, value)), pflags.plain)
    /\ FlagsUnchanged

call_set_user_defined(value) ==
    /\ pflags.ok
    /\ pflags' = FlagsCall("set_user_defined", value, 0, <<>>, pflags.v,
                           FlagsOk(set_user_defined(pflags.v, value)), FALSE)
    /\ FlagsUnchanged

call_set_hidden(value) ==
    /\ pflags.ok
    /\ pflags' = FlagsCall("set_hidden", value, 0, <<>>, pflags.v,
                           FlagsOk(set_hidden(pflags.v, value)), FALSE)
    /\ FlagsUnchanged

call_set_locked_member(members) ==
    /\ pflags.ok
    /\ pflags' = FlagsCall("set_locked_member", FALSE, members, <<>>, pflags.v,
                           IF set_locked_member_panics(members) THEN FlagsPanic
                           ELSE FlagsOk(set_locked_member(pflags.v, members)), FALSE)
    /\ FlagsUnchanged

\* from_string starts from none() whatever value exists: it is called in the
\* initial state.
call_from_string(flags_str) ==
    /\ pflags.op = "none"
    /\ pflags' = FlagsCall("from_string", FALSE, 0, flags_str, PropertyFlags_none,
                           from_string(flags_str), FALSE)
    /\ FlagsUnchanged

NextFlags ==
    \/ \E value \in BOOLEAN : call_set_animatable(value)
    \/ \E value \in BOOLEAN : call_set_animated(value)
    \/ \E value \in BOOLEAN : call_set_user_defined(value)
    \/ \E value \in BOOLEAN : call_set_hidden(value)
    \/ \E members \in MemberCounts : call_set_locked_member(members)
    \/ \E flags_str \in FlagStrings : call_from_string(flags_str)

SpecFlags == InitFlags /\ [][NextFlags]_vars

-----------------------------------------------------------------------------
\* Bit k of a flags value is set.
HasBit(v, k) == (v \div 2^k) % 2 = 1

\* C15: set_animated(true) returns a value with Animatable (bit 1) and
\* Animated (bit 2) set; set_animated(false) leaves Animatable as it was,
\* and leaves the whole value as it was when Animated was clear; a value made
\* from none() by calls of set_animated and set_animatable(true) alone has
\* Animatable set whenever it has Animated set.
C15_animated_implies_animatable ==
    /\ (pflags.op = "set_animated" /\ pflags.b) =>
           HasBit(pflags.v, 1) /\ HasBit(pflags.v, 2)
    /\ (pflags.op = "set_animated" /\ ~pflags.b) =>
           /\ HasBit(pflags.v, 1) <=> HasBit(pflags.prev, 1)
           /\ ~HasBit(pflags.prev, 2) => pflags.v = pflags.prev
    /\ (pflags.op = "set_animatable" /\ pflags.b /\ HasBit(pflags.prev, 1)) =>
           pflags.v = pflags.prev
    /\ pflags.plain => (HasBit(pflags.v, 2) => HasBit(pflags.v, 1))

\* set_animated(false) has been called on a value with Animatable and
\* Animated set, made by set_animated(true).
C15_witness ==
    /\ pflags.op = "set_animated"
    /\ ~pflags.b
    /\ pflags.plain
    /\ HasBit(pflags.prev, 1) /\ HasBit(pflags.prev, 2)
    /\ HasBit(pflags.v, 1) /\ ~HasBit(pflags.v, 2)

-----------------------------------------------------------------------------
\* The tokens of a flag string from position i on, read left to right: "A+"
\* for an 'A' followed by '+', "L" with the digit's value d for an 'L'
\* followed by a digit, and otherwise the single character.
RECURSIVE FlagTokens(_, _)
FlagTokens(s, i) ==
    IF i > Len(s) THEN <<>>
    ELSE IF s[i] = "A" /\ i < Len(s) /\ s[i + 1] = "+"
    THEN <<[t |-> "A+", d |-> 0]>> \o FlagTokens(s, i + 2)
    ELSE IF s[i] = "L" /\ i < Len(s) /\ s[i + 1] \in Digits
    THEN <<[t |-> "Ld", d |-> DigitValue(s[i + 1])]>> \o FlagTokens(s, i + 2)
    ELSE <<[t |-> s[i], d |-> 0]>> \o FlagTokens(s, i + 1)

\* The setter of a token applied to f; a token without a setter leaves f.
ApplyToken(f, tok) ==
    CASE tok.t = "U" -> set_user_defined(f, TRUE)
      [] tok.t = "A" -> set_animatable(f, TRUE)
      [] tok.t = "A+" -> set_animated(f, TRUE)
      [] tok.t = "H" -> set_hidden(f, TRUE)
      [] tok.t = "Ld" -> set_locked_member(f, tok.d)
      [] OTHER -> f

RECURSIVE ApplyTokens(_, _, _)
ApplyTokens(f, toks, k) ==
    IF k > Len(toks) THEN f ELSE ApplyTokens(ApplyToken(f, toks[k]), toks, k + 1)

\* C16: from_string returns, without a panic, the value that the setters of
\* the tokens of the string make from none(), applied left to right; for
\* "UA+HL7" that is
\* none().set_user_defined(true).set_animated(true).set_hidden(true).set_locked_member(7).
C16_from_string_applies_setters ==
    pflags.op = "from_string" =>
        /\ pflags.ok
        /\ pflags.v = ApplyTokens(PropertyFlags_none, FlagTokens(pflags.str, 1), 1)
        /\ pflags.str = <<"U", "A", "+", "H", "L", "7">> =>
               pflags.v = set_locked_member(
                              set_hidden(
                                  set_animated(
                                      set_user_defined(PropertyFlags_none, TRUE), TRUE), TRUE), 7)

\* from_string has returned for "UA+HL7".
C16_witness ==
    /\ pflags.op = "from_string"
    /\ pflags.str = <<"U", "A", "+", "H", "L", "7">>
    /\ pflags.ok
    /\ pflags.v = ShiftLeft(7, LOCKED_MEMBER_SHIFT)

-----------------------------------------------------------------------------
\* C17: a call of triangulate, whatever the index list and the triangulator,
\* leaves the vertices as they were, and leaves as it was every layer element
\* of the three arrays whose mapping mode is None, ByControlPoint, ByEdge or
\* AllSame: mapping mode, reference mode, indices and data.
C17_other_modes_unchanged ==
    tri.calls >= 1 =>
        /\ mesh.vertices = before.vertices
        /\ Len(LayerElementsOf(mesh)) = Len(LayerElementsOf(before))
        /\ Len(mesh.layer_element_materials) = Len(before.layer_element_materials)
        /\ Len(mesh.layer_element_normals) = Len(before.layer_element_normals)
        /\ \A j \in 1..Len(LayerElementsOf(before)) :
              LayerElementsOf(before)[j].mapping_mode
                  \in {"None", "ByControlPoint", "ByEdge", "AllSame"}
              => LayerElementsOf(mesh)[j] = LayerElementsOf(before)[j]

\* A quad has been triangulated and its normals, one per control point
\* through an index array, are as they were.
C17_witness ==
    /\ tri.calls = 1
    /\ tri.ok
    /\ before.polygon_vertex_index = NotTriangulated(<<0, 1, 2, -4>>)
    /\ mesh.polygon_vertex_index.tag = "Triangulated"
    /\ before.layer_element_normals[1] =
           LayerElement("ByControlPoint", IndexToDirect(<<3, 2, 1, 0>>), Some(FullData(4)))
    /\ mesh.layer_element_normals[1] = before.layer_element_normals[1]

-----------------------------------------------------------------------------
\* The source polygon that the source polygon vertex position q (from 0)
\* lies in: the number of polygon ends before it in the index list.
SourcePolygonOf(pvi, q) == Cardinality({j \in 1..q : pvi[j] < 0})

\* C18: after a successful triangulation, a layer element mapped
\* ByPolygonVertex whose reference mode is IndexToDirect has as its entry k
\* of the new index array the old entry at the source position s(k) of the
\* triangulated position k, s being the map the triangulator returned, which
\* sends each triangulated position to a source position of the same control
\* point; the data of the element is untouched.
C18_index_to_direct_by_polygon_vertex ==
    (tri.calls >= 1 /\ tri.ok /\ tri.info.some) =>
        LET s == tri.info.v.tri_pvi_to_src_pvi
            old == LayerElementsOf(before)
            new == LayerElementsOf(mesh)
        IN /\ Len(s) = Len(mesh.polygon_vertex_index.v)
           /\ \A k \in 1..Len(s) :
                 /\ s[k] + 1 \in 1..Len(before.polygon_vertex_index.v)
                 /\ mesh.polygon_vertex_index.v[k] =
                        ControlPoint(before.polygon_vertex_index.v[s[k] + 1])
           /\ \A j \in 1..Len(old) :
                 (old[j].mapping_mode = "ByPolygonVertex"
                     /\ old[j].reference_mode.tag = "IndexToDirect")
                 => /\ new[j].mapping_mode = "ByPolygonVertex"
                    /\ new[j].reference_mode.tag = "IndexToDirect"
                    /\ new[j].data = old[j].data
                    /\ Len(new[j].reference_mode.indices) = Len(s)
                    /\ \A k \in 1..Len(s) :
                          new[j].reference_mode.indices[k] =
                              old[j].reference_mode.indices[s[k] + 1]

\* A quad whose normals are mapped ByPolygonVertex through a backwards index
\* array has been cut into two triangles, and the six new indices differ
\* from the four old ones.
C18_witness ==
    /\ tri.calls = 1
    /\ tri.ok
    /\ tri.info.some
    /\ before.polygon_vertex_index = NotTriangulated(<<0, 1, 2, -4>>)
    /\ before.layer_element_normals[1] =
           LayerElement("ByPolygonVertex", IndexToDirect(<<3, 2, 1, 0>>), Some(FullData(4)))
    /\ Len(mesh.layer_element_normals[1].reference_mode.indices) = 6
    /\ mesh.layer_element_normals[1].data = Some(FullData(4))

-----------------------------------------------------------------------------
\* C19: after a successful triangulation, with p the map the triangulator
\* returned from output triangles to source polygons (the three positions of
\* triangle t come from source positions inside polygon p(t)), a layer
\* element mapped ByPolygon has, under Direct with data, new data[t] = old
\* data[p(t)], and under IndexToDirect new indices[t] = old indices[p(t)]
\* with the data unchanged.
C19_by_polygon_follows_source_polygon ==
    (tri.calls >= 1 /\ tri.ok /\ tri.info.some) =>
        LET s == tri.info.v.tri_pvi_to_src_pvi
            p == tri.info.v.tri_poly_to_src_poly
            old == LayerElementsOf(before)
            new == LayerElementsOf(mesh)
        IN /\ Len(s) = 3 * Len(p)
           /\ \A t \in 1..Len(p) : \A c \in 1..3 :
                 SourcePolygonOf(before.polygon_vertex_index.v, s[3 * (t - 1) + c]) = p[t]
           /\ \A j \in 1..Len(old) :
                 old[j].mapping_mode = "ByPolygon"
                 => /\ new[j].mapping_mode = "ByPolygon"
                    /\ new[j].reference_mode.tag = old[j].reference_mode.tag
                    /\ (old[j].reference_mode.tag = "Direct" /\ old[j].data.some)
                       => /\ new[j].data.some
                          /\ Len(new[j].data.v) = Len(p)
                          /\ \A t \in 1..Len(p) :
                                new[j].data.v[t] = old[j].data.v[p[t] + 1]
                    /\ (old[j].reference_mode.tag = "Direct" /\ ~old[j].data.some)
                       => new[j] = old[j]
                    /\ old[j].reference_mode.tag = "IndexToDirect"
                       => /\ new[j].data = old[j].data
                          /\ Len(new[j].reference_mode.indices) = Len(p)
                          /\ \A t \in 1..Len(p) :
                                new[j].reference_mode.indices[t] =
                                    old[j].reference_mode.indices[p[t] + 1]

\* A two-sided polygon followed by a triangle: the one output triangle comes
\* from source polygon 1 and carries the second datum of the normals mapped
\* ByPolygon.
C19_witness ==
    /\ tri.calls = 1
    /\ tri.ok
    /\ tri.info.some
    /\ before.polygon_vertex_index = NotTriangulated(<<0, -2, 0, 1, -3>>)
    /\ tri.info.v.tri_poly_to_src_poly = <<1>>
    /\ before.layer_element_normals[1] =
           LayerElement("ByPolygon", Direct, Some(FullData(5)))
    /\ mesh.layer_element_normals[1].data = Some(<<Datum(1)>>)

-----------------------------------------------------------------------------
\* The record a P node being loaded decodes to when it ends, if any.
DecodedPropertyNode(frame) ==
    IF frame.st.value.some
    THEN Some([type_name |-> frame.st.type_name, label |-> frame.st.label,
               flags |-> frame.st.flags, value |-> frame.st.value.v])
    ELSE None

\* C20: the map a GenericPropertiesLoader builds has one record per name, and
\* it changes only when a P child node has been decoded to a record: the name
\* of that node then maps to that record, in place of any record an earlier
\* P node of the same name left, and every other name keeps its record.  A P
\* node that is skipped or decodes to nothing changes no entry.  So the
\* record of a name is the one of its last occurrence that decoded.  The
\* finished map is handed to the loader of the parent node as it is.
C20_last_decoded_occurrence_wins ==
    [][ \A i \in 1..Len(stack) :
          stack[i].kind = "GenericProperties" =>
             LET old == stack[i].st.properties
             IN /\ (Len(stack') >= i /\ stack'[i].kind = "GenericProperties") =>
                      LET new == stack'[i].st.properties
                          decoded == IF Len(stack) = i + 1 /\ Len(stack') = i
                                        /\ stack[i + 1].kind = "PropertyNode"
                                     THEN DecodedPropertyNode(stack[i + 1])
                                     ELSE None
                      IN IF decoded.some
                         THEN /\ DOMAIN new = DOMAIN old \cup {stack[i + 1].st.prop_name}
                              /\ new[stack[i + 1].st.prop_name] = decoded.v
                              /\ \A x \in DOMAIN old \ {stack[i + 1].st.prop_name} :
                                    new[x] = old[x]
                         ELSE new = old
                /\ (Len(stack) = i /\ Len(stack') = i - 1 /\ i > 1) =>
                      stack'[i - 1].st.properties = Some(old)
      ]_vars

\* A Properties70 node with two P nodes, both closed: the map holds the one
\* name UVSet with the integer of the second P node.
C20_witness ==
    /\ Len(stack) = 3
    /\ Top.kind = "GenericProperties"
    /\ nnodes = 5
    /\ DOMAIN Top.st.properties = {T("UVSet")}
    /\ Top.st.properties[T("UVSet")].value = PV("I64", <<7>>, <<>>)

-----------------------------------------------------------------------------
(* A ClusterLoader part of the way through its node: the loader has read   *)
(* some of the UserData, Transform and TransformLink children, and reads   *)
(* the rest of the node from here.                                         *)

RECURSIVE ClusterLoader_after(_, _, _)
\* The loader after the children nodes[k..] have each been handled and skipped.
ClusterLoader_after(st, nodes, k) ==
    IF k > Len(nodes) THEN st
    ELSE ClusterLoader_after(ClusterLoader_on_child_node(st, nodes[k].name, nodes[k].props).st,
                             nodes, k + 1)

ClusterPrefixes ==
    LET user_data == Node("UserData", <<Str(T("")), Str(T(""))>>)
        transform == Node("Transform", <<VecF64(Matrix16)>>)
        transform_link == Node("TransformLink", <<VecF64(Matrix16)>>)
    IN { <<>>, <<user_data>>, <<user_data, transform>>, <<transform, transform_link>>,
         <<user_data, transform, transform_link>> }

\* The children already read are not counted in nnodes.
InitCluster ==
    /\ rdepth = 2
    /\ nnodes = 2
    /\ rstatus = "open"
    /\ \E prefix \in ClusterPrefixes :
          LET obj_props == ObjectProperties_from_node_properties(
                               Identity(1, "cl", "SubDeformer", "Cluster")).v
          IN stack = << Frame("Objects", 1, 0, 0, ObjectsLoader_new(Objects_new, EmptyMap)),
                        Frame("Cluster", 2, 1, 0,
                              ClusterLoader_after(ClusterLoader_new(obj_props), prefix, 1)) >>
    /\ scene = None
    /\ result = "running"
    /\ ret = NoReturn
    /\ NoData

SpecCluster == InitCluster /\ [][Next]_vars

\* The Cluster node on top of the stack ends and its loader returns to
\* ObjectsLoader.
ClusterFinishes ==
    /\ Len(stack) = 2
    /\ Top.kind = "Cluster"
    /\ Len(stack') = 1
    /\ result' = "running"

\* C21: when a Cluster node ends with an index array and a weight array of
\* different lengths, or with only one of the two, no object is stored,
\* whatever else the node gave; when it ends with neither array and with
\* user data, Transform and TransformLink, the Cluster is stored under its
\* id with empty indices and weights.
C21_cluster_arrays_must_match ==
    [][ ClusterFinishes =>
          LET st == Top.st
              objects == stack[1].st.objects
              after == stack'[1].st.objects
              required == st.user_data.some /\ st.transform.some /\ st.transform_link.some
          IN /\ ( \/ st.indices.some # st.weights.some
                  \/ (st.indices.some /\ st.weights.some
                         /\ Len(st.indices.v) # Len(st.weights.v)) )
                => after = objects
             /\ (~st.indices.some /\ ~st.weights.some /\ required)
                => /\ DOMAIN after.clusters = DOMAIN objects.clusters \cup {st.obj_props.id}
                   /\ \A id \in DOMAIN objects.clusters \ {st.obj_props.id} :
                         after.clusters[id] = objects.clusters[id]
                   /\ after.clusters[st.obj_props.id].indices = <<>>
                   /\ after.clusters[st.obj_props.id].weights = <<>>
                   /\ after.clusters[st.obj_props.id].transform = st.transform.v
                   /\ \A plural \in DOMAIN after \ {"clusters"} : after[plural] = objects[plural]
      ]_vars

\* The loader holds everything a Cluster needs, and two indices with one
\* weight, as its node is about to end.
C21_witness ==
    /\ Len(stack) = 2
    /\ Top.kind = "Cluster"
    /\ Top.st.user_data.some /\ Top.st.transform.some /\ Top.st.transform_link.some
    /\ Top.st.indices = Some(<<0, 1>>)
    /\ Top.st.weights = Some(<<1>>)
    /\ ENABLED load_EndNode

-----------------------------------------------------------------------------
(* A PoseLoader part of the way through its node: nothing read yet, or the *)
(* count declared, or the count declared and one pose node decoded.        *)

PoseLoaderPrefixes ==
    LET obj_props == ObjectProperties_from_node_properties(
                         Identity(1, "pose", "Pose", "BindPose")).v
        fresh == PoseLoader_new(obj_props)
        declared == PoseLoader_on_child_node(fresh, "NbPoseNodes", <<I32(1)>>).st
        first == PoseNodeLoader_on_finish(
                     PoseNodeLoader_on_child_node(
                         PoseNodeLoader_on_child_node(PoseNodeLoader_new, "Node", <<I64(2)>>).st,
                         "Matrix", <<VecF64(Matrix16)>>).st)
    IN { fresh, declared, PoseLoader_resume(declared, first) }

\* The children already read are not counted in nnodes.
InitPose ==
    /\ rdepth = 2
    /\ nnodes = 2
    /\ rstatus = "open"
    /\ \E st \in PoseLoaderPrefixes :
          stack = << Frame("Objects", 1, 0, 0, ObjectsLoader_new(Objects_new, EmptyMap)),
                     Frame("Pose", 2, 1, 0, st) >>
    /\ scene = None
    /\ result = "running"
    /\ ret = NoReturn
    /\ NoData

SpecPose == InitPose /\ [][Next]_vars

\* C22: a Pose is stored when its node ends if and only if a count that is
\* not negative was declared by NbPoseNodes; the stored Pose carries the
\* pose nodes decoded so far whether or not their number is the declared
\* count; and each PoseNode child that decodes is put after the pose nodes
\* decoded before it, while one that does not decode changes nothing.
C22_pose_emitted_despite_count_mismatch ==
    [][ /\ (Len(stack) = 2 /\ Top.kind = "Pose" /\ Len(stack') = 1 /\ result' = "running") =>
              LET st == Top.st
                  objects == stack[1].st.objects
                  after == stack'[1].st.objects
              IN IF st.nb_pose_nodes.some
                 THEN /\ st.nb_pose_nodes.v >= 0
                      /\ st.pose_nodes.some
                      /\ DOMAIN after.poses = DOMAIN objects.poses \cup {st.obj_props.id}
                      /\ \A id \in DOMAIN objects.poses \ {st.obj_props.id} :
                            after.poses[id] = objects.poses[id]
                      /\ after.poses[st.obj_props.id].pose_nodes = st.pose_nodes.v
                 ELSE after = objects
        /\ (Len(stack) = 3 /\ Top.kind = "PoseNode" /\ Len(stack') = 2 /\ result' = "running") =>
              LET decoded == Top.st.node.some /\ Top.st.matrix.some
                  old == stack[2].st.pose_nodes.v
                  new == stack'[2].st.pose_nodes.v
              IN /\ stack'[2].st.nb_pose_nodes = stack[2].st.nb_pose_nodes
                 /\ IF decoded
                    THEN new = old \o <<[node |-> Top.st.node.v, matrix |-> Top.st.matrix.v]>>
                    ELSE new = old
      ]_vars

\* One pose node was declared and two were decoded, and the Pose is in the
\* store with both, the earlier one first.
C22_witness ==
    /\ Len(stack) = 1
    /\ Top.kind = "Objects"
    /\ 1 \in DOMAIN Top.st.objects.poses
    /\ Len(Top.st.objects.poses[1].pose_nodes) = 2
    /\ Top.st.objects.poses[1].pose_nodes[1].node = 2
    /\ Top.st.objects.poses[1].pose_nodes[2].node = 1

-----------------------------------------------------------------------------
(* Termination.  The reader hands out each event once, and a stream holds  *)
(* finitely many of them, so a call of reader.next() by the innermost      *)
(* activation always comes back: the steps of Next are weakly fair.        *)

SpecLive == Init /\ [][Next]_vars /\ WF_vars(Next)

SpecObjectsLive == InitObjects /\ [][Next]_vars /\ WF_vars(Next)

\* Every decode stops: by a return or by a panic.  Each step consumes one
\* event: it opens a node (at most MaxNodes of them), closes one, or meets the
\* end of the stream, which ends the innermost activation.
decode_stops == <>(result # "running")

\* C23: for every finite event stream that does not end inside a node, the
\* decode eventually returns, with a value or with an error.
C23_decode_returns == <>(result \in {"Ok", "Err"} \/ rstatus = "truncated")

-----------------------------------------------------------------------------
\* C24: what triangulate_polygon_index returned for a NotTriangulated index
\* list: the entry k of tri_vertex_index is the control point of the source
\* entry at tri_pvi_to_src_pvi[k] (the entry itself, or its complement when
\* negative); that source position lies in the source polygon numbered
\* tri_poly_to_src_poly[k div 3]; and tri_poly_to_src_poly has one entry per
\* output triangle and never decreases.
C24_triangulation_maps_are_consistent ==
    (tri.calls >= 1 /\ tri.info.some /\ tri.info.v.ok) =>
        LET src == before.polygon_vertex_index.v
            out == tri.info.v.tri_vertex_index
            s == tri.info.v.tri_pvi_to_src_pvi
            p == tri.info.v.tri_poly_to_src_poly
        IN /\ before.polygon_vertex_index.tag = "NotTriangulated"
           /\ Len(s) = Len(out)
           /\ Len(out) = 3 * Len(p)
           /\ \A k \in 0..(Len(out) - 1) :
                 /\ s[k + 1] \in 0..(Len(src) - 1)
                 /\ out[k + 1] = (IF src[s[k + 1] + 1] >= 0 THEN src[s[k + 1] + 1]
                                  ELSE 0 - src[s[k + 1] + 1] - 1)
                 /\ Cardinality({j \in 1..s[k + 1] : src[j] < 0}) = p[(k \div 3) + 1]
           /\ \A t \in 1..(Len(p) - 1) : p[t] <= p[t + 1]

\* The quad [0,1,2,3] followed by the triangle [0,1,2] has been cut into
\* three triangles by the fan triangulator: two of the first polygon and one
\* of the second.
C24_witness ==
    /\ tri.calls = 1
    /\ tri.f = "triangulate_fan"
    /\ tri.info.some
    /\ tri.info.v.ok
    /\ before.polygon_vertex_index = NotTriangulated(<<0, 1, 2, -4, 0, 1, -3>>)
    /\ tri.info.v.tri_poly_to_src_poly = <<0, 0, 1>>
    /\ tri.info.v.tri_pvi_to_src_pvi = <<0, 1, 2, 0, 2, 3, 4, 5, 6>>
    /\ tri.info.v.tri_vertex_index = <<0, 1, 2, 0, 2, 3, 0, 1, 2>>

-----------------------------------------------------------------------------
\* C25: for every quad on the grid, the corner normals triangulate_polygon
\* computes are the cross products (p0 - p1) x (p1 - p2) and
\* (p2 - p3) x (p3 - p0), and the call cuts the quad along 0-2 exactly when the
\* dot product of these two cross products is not negative.
C25_corner_normals_are_cross_products ==
    (quad # <<>> /\ quad.done /\ Len(quad.poly_indices) = 4
        /\ \A k \in 1..4 : quad.poly_indices[k] < Len(quad.vertices)) =>
        /\ QuadNormal1(quad.vertices, quad.poly_indices) =
               CornerNormal1(quad.vertices, quad.poly_indices)
        /\ QuadNormal3(quad.vertices, quad.poly_indices) =
               CornerNormal3(quad.vertices, quad.poly_indices)
        /\ (quad.out.target = quad.target \o <<0, 1, 2, 2, 3, 0>>
               <=> vec_dot(CornerNormal1(quad.vertices, quad.poly_indices),
                           CornerNormal3(quad.vertices, quad.poly_indices)) >= 0)

-----------------------------------------------------------------------------
\* The number of polygon vertices of the source polygon numbered q.
SourcePolygonSize(pvi, q) ==
    Cardinality({j \in 1..Len(pvi) : SourcePolygonOf(pvi, j - 1) = q})

\* C26: with triangulate_polygon as the triangulator, a source polygon of
\* fewer than 3 or more than 4 vertices gives no triangle: the call for it
\* returns 0 and leaves target as it was, no output position comes from one
\* of its polygon vertices, and no triangle names it; a triangle gives one
\* triangle and a quad two; and every triangle names the position, in the
\* sequence of source polygons, of the polygon its vertices come from, also
\* after a polygon that gave no triangle.
C26_unsupported_polygon_gives_no_triangle ==
    (tri.calls >= 1 /\ tri.f = "triangulate_polygon" /\ tri.info.some /\ tri.info.v.ok) =>
        LET src == before.polygon_vertex_index.v
            s == tri.info.v.tri_pvi_to_src_pvi
            p == tri.info.v.tri_poly_to_src_poly
            closed == Cardinality({j \in 1..Len(src) : src[j] < 0})
        IN /\ \A q \in 0..(closed - 1) :
                 LET size == SourcePolygonSize(src, q)
                     triangles == Cardinality({t \in 1..Len(p) : p[t] = q})
                 IN /\ size \notin {3, 4} =>
                          /\ triangles = 0
                          /\ \A k \in 1..Len(s) : SourcePolygonOf(src, s[k]) # q
                          /\ triangulate_polygon(before.vertices, [j \in 1..size |-> 0], <<7>>)
                                 = Returned(0, <<7>>)
                    /\ size = 3 => triangles = 1
                    /\ size = 4 => triangles = 2
           /\ \A t \in 1..Len(p) : \A c \in 1..3 :
                 /\ 3 * (t - 1) + c \in 1..Len(s)
                 /\ p[t] = SourcePolygonOf(src, s[3 * (t - 1) + c])

\* A polygon of two vertices followed by a triangle: the one triangle of the
\* output is that of source polygon 1.
C26_witness ==
    /\ tri.calls = 1
    /\ tri.f = "triangulate_polygon"
    /\ tri.ok
    /\ before.polygon_vertex_index = NotTriangulated(<<0, -2, 0, 1, -3>>)
    /\ mesh.polygon_vertex_index = Triangulated(<<0, 1, 2>>)
    /\ tri.info.v.tri_poly_to_src_poly = <<1>>
    /\ tri.info.v.tri_pvi_to_src_pvi = <<2, 3, 4>>

-----------------------------------------------------------------------------
\* The index array is a sequence of triangles: every third entry closes a
\* polygon and no other entry does.
AllTriangles(pvi) ==
    /\ Len(pvi) % 3 = 0
    /\ \A j \in 1..Len(pvi) : (pvi[j] < 0) <=> (j % 3 = 0)

\* The array a layer element is read through for the given index array has
\* one entry for each polygon vertex (ByPolygonVertex) or polygon (ByPolygon).
OneEntryEach(le, pvi) ==
    LET n == IF le.mapping_mode = "ByPolygonVertex" THEN Len(pvi) ELSE NumPolygons(pvi)
    IN IF le.reference_mode.tag = "Direct"
       THEN le.data.some => Len(le.data.v) = n
       ELSE Len(le.reference_mode.indices) = n

-----------------------------------------------------------------------------
(* Calls of PropertyNodeLoader::new on the cells of a P node after the     *)
(* name: type name, label, flags and the value cells.                      *)

\* Largest number of value cells.
MaxValueCells == 3

ValueCells == {I16(1), I32(2), I64(3), F32(4), F64(5), Str(T("s")), Bool(1)}

ValueCellSeqs == UNION {[1..n -> ValueCells] : n \in 0..MaxValueCells}

PropertyNodeCall(type_name, label, cells, done, out) ==
    [type_name |-> type_name, label |-> label, cells |-> cells, done |-> done, out |-> out]

InitPropertyNode ==
    /\ NoDecode
    /\ mesh = <<>>
    /\ before = <<>>
    /\ tri = <<>>
    /\ quad = <<>>
    /\ lookup = <<>>
    /\ identity = <<>>
    /\ pflags = <<>>
    /\ \E type_name \in {"double", "Blob"}, label \in {"", "Number"}, cells \in ValueCellSeqs :
          pnode = PropertyNodeCall(type_name, label, cells, FALSE, None)

\* PropertyNodeLoader::new(prop_iter).map(|loader| loader.on_finish()), for
\* a P node without children
call_PropertyNodeLoader_new ==
    /\ ~pnode.done
    /\ LET props == <<Str(T(pnode.type_name)), Str(T(pnode.label)), Str(T(""))>> \o pnode.cells
           loader == PropertyNodeLoader_new(props, 1)
       IN pnode' = [pnode EXCEPT
                       !.done = TRUE,
                       !.out = IF loader.some THEN Some(PropertyNodeLoader_on_finish(loader.v).v)
                               ELSE None]
    /\ UNCHANGED <<mesh, before, tri, quad, lookup, identity, pflags>>
    /\ UNCHANGED decodeVars

NextPropertyNode == call_PropertyNodeLoader_new

SpecPropertyNode == InitPropertyNode /\ [][NextPropertyNode]_vars

\* The number of cells right after the first value cell whose type is one
\* of tags, up to the first cell of another type.
FollowingCells(cells, tags) ==
    LET fits(m) == \A j \in 2..(m + 1) : cells[j].t \in tags
    IN CHOOSE m \in 0..(Len(cells) - 1) :
          fits(m) /\ (m + 1 < Len(cells) => ~fits(m + 1))

\* C28: the value of a record whose label is not "Blob" is decided by its
\* first value cell: no cell gives Empty; an integer cell of 16, 32 or 64
\* bits followed by n integer cells gives the scalar I64 when n = 0 and the
\* vector of the n + 1 numbers otherwise, the collection stopping at the
\* first cell that is not an integer; a float cell gives a scalar or a
\* vector of its own width by the same rule; a string cell gives String;
\* and any other first cell gives a loader that finishes without a record.
C28_value_from_first_cell ==
    (pnode # <<>> /\ pnode.done) =>
        LET cells == pnode.cells
            first == cells[1]
            numbers(n) == [k \in 1..(n + 1) |-> cells[k].a[1]]
            value == pnode.out.v.v.value
            scalar_or_vector(scalar, vector, tags) ==
                LET n == FollowingCells(cells, tags)
                IN /\ n = 0 => value = PV(scalar, first.a, <<>>)
                   /\ n > 0 => value = PV(vector, numbers(n), <<>>)
        IN /\ pnode.out.some
           /\ pnode.out.v.some <=> (cells = <<>> \/ first.t # "Bool")
           /\ pnode.out.v.some =>
                 /\ pnode.out.v.v.type_name = T(pnode.type_name)
                 /\ pnode.out.v.v.label = T(pnode.label)
                 /\ cells = <<>> => value = PV("Empty", <<>>, <<>>)
                 /\ cells # <<>> =>
                       CASE first.t \in {"I16", "I32", "I64"} ->
                              scalar_or_vector("I64", "VecI64", {"I16", "I32", "I64"})
                         [] first.t = "F32" ->
                              scalar_or_vector("F32", "VecF32", {"F32", "F64"})
                         [] first.t = "F64" ->
                              scalar_or_vector("F64", "VecF64", {"F32", "F64"})
                         [] first.t = "Str" -> value = PV("String", <<>>, first.s)
                         [] OTHER -> FALSE

\* An int16 cell followed by an int64 cell and a string cell has been read
\* as the vector of the two numbers.
C28_witness ==
    /\ pnode # <<>>
    /\ pnode.done
    /\ pnode.cells = <<I16(1), I64(3), Str(T("s"))>>
    /\ pnode.out.v.v.value = PV("VecI64", <<1, 3>>, <<>>)

-----------------------------------------------------------------------------
(* Calls of PropertyNodeLoader::new(..).load(reader) on a P node whose     *)
(* label is "Blob", with the children of the node, each of them skipped    *)
(* by ignore_current_node once on_child_node has looked at it.             *)

\* Largest number of children of the P node.
MaxChildren == 3

BlobChildren ==
    { Node("BinaryData", <<Bin(<<"b1", "b2">>)>>), Node("BinaryData", <<Bin(<<"b3">>)>>),
      Node("BinaryData", <<I32(1)>>), OtherNode }

BlobChildSeqs == UNION {[1..n -> BlobChildren] : n \in 0..MaxChildren}

RECURSIVE PropertyNodeLoader_load(_, _, _)
\* NodeLoader::load from the child k on: the record, nothing, or a panic.
PropertyNodeLoader_load(st, children, k) ==
    IF k > Len(children)
    THEN [panic |-> FALSE, record |-> PropertyNodeLoader_on_finish(st).v]
    ELSE LET r == PropertyNodeLoader_on_child_node(st, children[k].name, children[k].props)
         IN IF r.call.op = "panic" THEN [panic |-> TRUE, record |-> None]
            ELSE PropertyNodeLoader_load(r.st, children, k + 1)

InitBlob ==
    /\ NoDecode
    /\ mesh = <<>>
    /\ before = <<>>
    /\ tri = <<>>
    /\ quad = <<>>
    /\ lookup = <<>>
    /\ identity = <<>>
    /\ pflags = <<>>
    /\ \E type_name \in {"Blob", "KString"}, cells \in {<<I32(2)>>, <<I32(0)>>, <<>>},
          children \in BlobChildSeqs :
          pnode = [type_name |-> type_name, label |-> "Blob", cells |-> cells,
                   children |-> children, done |-> FALSE,
                   out |-> [panic |-> FALSE, record |-> None]]

\* if let Some(loader) = PropertyNodeLoader::new(prop_iter) { loader.load(reader) }
call_PropertyNodeLoader_load ==
    /\ ~pnode.done
    /\ LET props == <<Str(T(pnode.type_name)), Str(T(pnode.label)), Str(T(""))>> \o pnode.cells
           loader == PropertyNodeLoader_new(props, 1)
       IN pnode' = [pnode EXCEPT
                       !.done = TRUE,
                       !.out = IF loader.some
                               THEN PropertyNodeLoader_load(loader.v, pnode.children, 1)
                               ELSE [panic |-> FALSE, record |-> None]]
    /\ UNCHANGED <<mesh, before, tri, quad, lookup, identity, pflags>>
    /\ UNCHANGED decodeVars

NextBlob == call_PropertyNodeLoader_load

SpecBlob == InitBlob /\ [][NextBlob]_vars

RECURSIVE BinaryPayloads(_, _)
\* The binary payloads of the BinaryData children from child k on, in order.
BinaryPayloads(children, k) ==
    IF k > Len(children) THEN <<>>
    ELSE (IF children[k].name = "BinaryData" /\ Len(children[k].props) >= 1
             /\ children[k].props[1].t = "Bin"
          THEN children[k].props[1].s ELSE <<>>)
         \o BinaryPayloads(children, k + 1)

\* C29: a record whose label is "Blob" and that has an integer length cell
\* is decoded, whatever its type name, to a Blob holding the binary payloads
\* of its BinaryData children one after the other, in the order of the
\* stream.
C29_blob_is_concatenation ==
    (pnode # <<>> /\ pnode.done /\ Len(pnode.cells) = 1) =>
        /\ ~pnode.out.panic
        /\ pnode.out.record.some
        /\ pnode.out.record.v.value = PV("Blob", <<>>, BinaryPayloads(pnode.children, 1))

-----------------------------------------------------------------------------
\* The frame of an object node whose subclass no loader of its class knows:
\* the Unknown loader of Geometry, NodeAttribute and CollectionExclusive, or
\* the Model loader with a subclass other than LimbNode, Mesh and Null.
UnrecognizedSubclass(frame) ==
    \/ frame.kind = "Unknown"
    \/ /\ frame.kind = "Model"
       /\ frame.st.obj_props.subclass \notin {T("LimbNode"), T("Mesh"), T("Null")}

\* C30 as stated: when a Geometry, NodeAttribute, CollectionExclusive or
\* Model node of an unrecognized subclass has been consumed up to its exit
\* event, whatever children it had, the decode goes on, the Unknown map has
\* gained the one record with the node's id, name, class and subclass under
\* the node's id, and every other map of the store is as it was.
C30_unrecognized_object_becomes_unknown ==
    [][(/\ InLoad
        /\ Len(stack) = 2
        /\ stack[1].kind = "Objects"
        /\ UnrecognizedSubclass(Top)
        /\ AtEndNode)
       => LET p == Top.st.obj_props
          IN /\ result' = "running"
             /\ TheObjects' = [TheObjects EXCEPT
                                  !.unknown = Insert(@, p.id, UnknownObject(p))]]_vars

-----------------------------------------------------------------------------
\* The cells of an object node give no identity: the id cell is missing or
\* is not a 64-bit integer, the name/class cell is missing, is no string or
\* has no separator, or the subclass cell is missing or is no string.
MalformedIdentity(props) ==
    \/ Len(props) < 1 \/ props[1].t # "I64"
    \/ Len(props) < 2 \/ props[2].t # "Str" \/ SepPositions(props[2].s) = {}
    \/ Len(props) < 3 \/ props[3].t # "Str"

\* ignore_current_node is running for a child of the Objects node.
SkippingObjectNode ==
    /\ Running
    /\ Len(stack) = 2
    /\ stack[1].kind = "Objects"
    /\ Top.kind = SkipKind

\* C31: when ObjectsLoader reads the enter event of a child whose cells give
\* no identity, it calls ignore_current_node and nothing else: no loader is
\* started, no map of the store changes and no error is returned.  While
\* ignore_current_node consumes the events of a stream that goes on, the
\* loader and its store stay as they are; on the exit event of the child the
\* skip returns Ok to ObjectsLoader, which is then at the depth of the
\* Objects node with the store it had, ready for the next sibling.
C31_malformed_identity_skips_the_node ==
    [][ /\ \A node \in ObjectNodes :
              (MalformedIdentity(node.props) /\ Len(stack) = 1 /\ Top.kind = "Objects"
                 /\ load_StartNode(node))
              => /\ result' = "running"
                 /\ stack' = <<Top, Frame(SkipKind, rdepth + 1, nnodes, 1, <<>>)>>
        /\ (SkippingObjectNode /\ rstatus' = "open")
              => /\ result' = "running"
                 /\ stack'[1] = stack[1]
                 /\ Len(stack') = 1 <=> (rdepth = Top.base /\ AtEndNode)
                 /\ Len(stack') = 1 => /\ rdepth' = stack[1].base
                                       /\ ret'.ok
                                       /\ ret'.kind = SkipKind
      ]_vars

\* A node without identity was skipped with the node nested in it, nothing
\* was stored, and the loader of the next sibling, a Material, is running.
C31_witness ==
    /\ Len(stack) = 2
    /\ stack[1].kind = "Objects"
    /\ Top.kind = "Material"
    /\ ret.kind = SkipKind
    /\ ret.handler = "Objects"
    /\ ret.nodes = 2
    /\ \A plural \in ObjectMaps : TheObjects[plural] = EmptyMap
    /\ result = "running"

-----------------------------------------------------------------------------
(* A VideoLoader part of the way through its node: nothing read yet, or    *)
(* the UseMipMap and RelativeFilename children read.                       *)

VideoLoaderPrefixes ==
    LET obj_props == ObjectProperties_from_node_properties(
                         Identity(1, "vid", "Video", "Clip")).v
        fresh == VideoLoader_new(obj_props)
        mip == VideoLoader_on_child_node(fresh, "UseMipMap", <<I32(0)>>).st
    IN { fresh,
         VideoLoader_on_child_node(mip, "RelativeFilename", <<Str(T("a.png"))>>).st }

\* The children already read are not counted in nnodes.
InitVideo ==
    /\ rdepth = 2
    /\ nnodes = 2
    /\ rstatus = "open"
    /\ \E st \in VideoLoaderPrefixes :
          stack = << Frame("Objects", 1, 0, 0, ObjectsLoader_new(Objects_new, FullTemplates)),
                     Frame("Video", 2, 1, 0, st) >>
    /\ scene = None
    /\ result = "running"
    /\ ret = NoReturn
    /\ NoData

SpecVideo == InitVideo /\ [][Next]_vars

\* C32: a VideoLoader starts with no file name and no content.  The file
\* name it holds changes only when it reads a Filename child.  When it reads
\* a Content child whose first cell is binary while it holds a file name,
\* the content becomes what the converter made of exactly those bytes and
\* that file name; on any other child the content is not the result of a
\* new conversion: it stays, or is cleared.  A Content child read while no
\* file name is held changes nothing in the loader, so the content stays
\* absent, and the decode goes on: the Video is not dropped for it.
C32_converter_needs_filename_first ==
    [][ /\ (Len(stack) = 1 /\ Len(stack') = 2 /\ stack'[2].kind = "Video")
              => /\ stack'[2].st.filename = None
                 /\ stack'[2].st.content = None
        /\ \A node \in NodesFor("Video") :
              (Len(stack) = 2 /\ Top.kind = "Video" /\ load_StartNode(node))
              => LET st == Top.st
                     new == stack'[2].st
                     invoked == /\ node.name = "Content"
                                /\ Len(node.props) >= 1
                                /\ node.props[1].t = "Bin"
                                /\ st.filename.some
                 IN /\ result' = "running"
                    /\ invoked => new.content = Some([binary |-> node.props[1].s,
                                                      path |-> st.filename.v])
                    /\ ~invoked => new.content \in {st.content, None}
                    /\ (node.name = "Content" /\ ~st.filename.some) => new = st
                    /\ node.name # "Filename" => new.filename = st.filename
        /\ (Len(stack) > 2 /\ stack[2].kind = "Video" /\ Len(stack') >= 2)
              => /\ stack'[2].st.filename = stack[2].st.filename
                 /\ stack'[2].st.content = stack[2].st.content
      ]_vars

\* Two children of the Video node were read, as a Content child with bytes
\* and then a Filename child:
\* the Video is in the store with that file name and without content.
C32_witness ==
    /\ Len(stack) = 1
    /\ nnodes = 4
    /\ ret.kind = "Video"
    /\ 1 \in DOMAIN TheObjects.videos
    /\ TheObjects.videos[1].filename = T("a.png")
    /\ TheObjects.videos[1].content = None

\* The Video node had a Filename child and then a Content child with bytes:
\* the Video is in the store with the conversion of those bytes.
Video_with_content ==
    /\ Len(stack) = 1
    /\ 1 \in DOMAIN TheObjects.videos
    /\ TheObjects.videos[1].content = Some([binary |-> <<"b1">>, path |-> T("b.png")])

-----------------------------------------------------------------------------
\* The cells of a C node are a connection: a type out of OO, OP, PO, PP and
\* two 64-bit ids.
ConnectionCells(props) ==
    /\ Len(props) >= 3
    /\ props[1].t = "Str"
    /\ props[1].s \in {T("OO"), T("OP"), T("PO"), T("PP")}
    /\ props[2].t = "I64"
    /\ props[3].t = "I64"

\* The connection the cells of a C node stand for.
ConnectionOf(props) ==
    [child |-> props[2].a[1],
     parent |-> props[3].a[1],
     attribute |-> IF Len(props) >= 4 /\ props[4].t = "Str" THEN Some(props[4].s) ELSE None,
     child_is_property |-> props[1].s \in {T("PO"), T("PP")},
     parent_is_property |-> props[1].s \in {T("OP"), T("PP")}]

\* C33: when ConnectionsLoader reads a child, the list of connections gains
\* at its end the one connection the child stands for if the child is a C
\* node whose cells are a type out of OO, OP, PO, PP and two 64-bit ids, and
\* stays as it is otherwise; no child makes the decode fail.  The list does
\* not change while the child is skipped, and when the Connections node ends
\* the scene loader receives the list as it is, in stream order.
C33_connections_in_stream_order ==
    [][ /\ \A node \in NodesFor("Connections") :
              (InLoad /\ Top.kind = "Connections" /\ load_StartNode(node))
              => LET old == Top.st.connections
                     new == stack'[Len(stack)].st.connections
                 IN /\ result' = "running"
                    /\ IF node.name = "C" /\ ConnectionCells(node.props)
                       THEN new = old \o <<ConnectionOf(node.props)>>
                       ELSE new = old
        /\ (Running /\ Len(stack) = 3 /\ stack[2].kind = "Connections" /\ Len(stack') >= 2)
              => stack'[2].st.connections = stack[2].st.connections
        /\ (InLoad /\ Len(stack) = 2 /\ Top.kind = "Connections" /\ Len(stack') = 1)
              => /\ result' = "running"
                 /\ stack'[1].st.connections = Some(Top.st.connections)
      ]_vars

\* The Connections node had an OP child with an attribute, an invalid child
\* and a PO child, and has ended: the scene loader holds the two connections
\* in that order.
C33_witness ==
    /\ Len(stack) = 1
    /\ Top.kind = "FbxScene"
    /\ Top.st.connections =
          Some(<< [child |-> 2, parent |-> 1, attribute |-> Some(T("DiffuseColor")),
                   child_is_property |-> FALSE, parent_is_property |-> TRUE],
                  [child |-> 1, parent |-> 1, attribute |-> None,
                   child_is_property |-> TRUE, parent_is_property |-> FALSE] >>)
    /\ nnodes = 4

-----------------------------------------------------------------------------
\* Integer values a version child may carry: the versions the loaders
\* expect, and others.
VersionValues == {0, 100, 101, 102, 124, 202, 232, 999}

\* C34: when a loader that knows a version child reads that child with some
\* integer version, the step it takes is the step it takes for every other
\* integer version: the loader keeps its fields, ignore_current_node is
\* called for the child at the same depth, and nothing is returned.  As
\* every later step depends on the state only, two decodes that differ in
\* the version only go through the same states and end alike.
C34_version_value_is_not_observed ==
    [][ \A v \in VersionValues :
          (InLoad /\ Top.kind \in VersionedKinds /\ load_StartNode(VersionNode(Top.kind, v)))
          => /\ \A w \in VersionValues : load_StartNode(VersionNode(Top.kind, w))
             /\ stack' = stack \o <<Frame(SkipKind, rdepth + 1, nnodes, 1, <<>>)>>
             /\ result' = "running"
      ]_vars

\* The child of a LayerElement node of a Mesh is being skipped, as its
\* Version child is.
C34_witness ==
    /\ Len(stack) = 5
    /\ stack[4].kind = "LayerElement"
    /\ Top.kind = SkipKind
    /\ Top.level = 1
    /\ result = "running"

-----------------------------------------------------------------------------
\* C35: the scene loader holds definitions only once a Definitions node has
\* been decoded: the field changes only when the loader of a Definitions
\* node returns.  When the scene loader reads the enter event of an Objects
\* node while it holds no definitions, load_scene returns an error at that
\* event and no scene, whatever else it has decoded.
C35_objects_need_definitions ==
    [][ /\ (Len(stack) >= 1 /\ stack[1].kind = "FbxScene" /\ Len(stack') >= 1
              /\ stack'[1].st.definitions # stack[1].st.definitions)
              => /\ Len(stack) = 2
                 /\ stack[2].kind = "Definitions"
                 /\ Len(stack') = 1
        /\ (InLoad /\ Len(stack) = 1 /\ Top.kind = "FbxScene" /\ ~Top.st.definitions.some
              /\ load_StartNode(Node("Objects", <<>>)))
              => /\ result' = "Err"
                 /\ stack' = <<>>
                 /\ scene' = None
                 /\ ~ret'.ok
                 /\ ret'.ev = "StartNode"
                 /\ ret'.nodes = 1
      ]_vars

\* An Objects node came third, after two nodes that were decoded or skipped
\* and before any Definitions node: load_scene has returned an error on its
\* enter event and there is no scene.
C35_witness ==
    /\ result = "Err"
    /\ scene = None
    /\ ret.fn = "on_child_node"
    /\ ret.kind = "FbxScene"
    /\ ret.ev = "StartNode"
    /\ nnodes = 3
    /\ rdepth = 1

-----------------------------------------------------------------------------
\* The number of entries of the index array up to its last end-of-polygon
\* entry: the entries after it close no polygon.
TerminatedLen(pvi) ==
    IF \E j \in 1..Len(pvi) : pvi[j] < 0
    THEN CHOOSE j \in 1..Len(pvi) : pvi[j] < 0 /\ \A k \in (j + 1)..Len(pvi) : pvi[k] >= 0
    ELSE 0

\* C36: what triangulate_polygon_index returns for a NotTriangulated index
\* array is what it returns for the array cut after its last end-of-polygon
\* entry, be it the three maps or a panic of the triangulator: the entries
\* after that one are handed to no triangulator call.  No position of the
\* output comes from one of them, and every triangle belongs to a polygon
\* that was closed.
C36_unterminated_tail_is_dropped ==
    (tri.calls >= 1 /\ tri.info.some) =>
        LET src == before.polygon_vertex_index.v
            terminated == SubSeq(src, 1, TerminatedLen(src))
            info == tri.info.v
        IN /\ info = TriangulateFrom(tri.f, before.vertices, terminated, 1, <<>>, 0,
                                     TriangulationInfo(<<>>, <<>>, <<>>))
           /\ \A k \in 1..Len(info.tri_pvi_to_src_pvi) :
                 info.tri_pvi_to_src_pvi[k] < TerminatedLen(src)
           /\ \A t \in 1..Len(info.tri_poly_to_src_poly) :
                 info.tri_poly_to_src_poly[t] < NumPolygons(src)
           /\ (tri.ok /\ TerminatedLen(src) = 0) => mesh.polygon_vertex_index = Triangulated(<<>>)

\* A triangle followed by three entries that no negative entry closes: the
\* mesh has the one triangle, made of the first three entries.
C36_witness ==
    /\ tri.calls = 1
    /\ tri.ok
    /\ before.polygon_vertex_index = NotTriangulated(<<0, 1, -3, 3, 2, 1>>)
    /\ mesh.polygon_vertex_index = Triangulated(<<0, 1, 2>>)
    /\ tri.info.v.tri_pvi_to_src_pvi = <<0, 1, 2>>
    /\ tri.info.v.tri_poly_to_src_poly = <<0>>

-----------------------------------------------------------------------------
\* The four bits of the locked-member count, as a number.
LockedMemberCount(v) == (v \div 2^LOCKED_MEMBER_SHIFT) % 16

\* C37 as stated: a call of set_locked_member(m) with m in 0..9 returns a
\* value with the Animatable, Animated, UserDefined and Hidden bits of the
\* value it was called on, and with the locked-member count m.
C37_locked_member_keeps_other_flags ==
    (pflags.op = "set_locked_member" /\ pflags.members \in 0..9) =>
        /\ pflags.ok
        /\ BitAnd(pflags.v, ANIMATABLE) = BitAnd(pflags.prev, ANIMATABLE)
        /\ BitAnd(pflags.v, ANIMATED) = BitAnd(pflags.prev, ANIMATED)
        /\ BitAnd(pflags.v, USER_DEFINED) = BitAnd(pflags.prev, USER_DEFINED)
        /\ BitAnd(pflags.v, HIDDEN) = BitAnd(pflags.prev, HIDDEN)
        /\ LockedMemberCount(pflags.v) = pflags.members

\* The count alone: set_locked_member(m) called on a value without a
\* locked-member count returns a value whose count is m.
set_locked_member_on_zero_count ==
    (pflags.op = "set_locked_member" /\ pflags.ok /\ LockedMemberCount(pflags.prev) = 0) =>
        LockedMemberCount(pflags.v) = pflags.members

\* The count replaced: set_locked_member(m) called on a value with a
\* count returns a value whose count is m.
set_locked_member_replaces_count ==
    (pflags.op = "set_locked_member" /\ pflags.ok) =>
        LockedMemberCount(pflags.v) = pflags.members

\* The other flags: set_locked_member(m) keeps the Animatable bit.
set_locked_member_keeps_animatable ==
    (pflags.op = "set_locked_member" /\ pflags.ok) =>
        BitAnd(pflags.v, ANIMATABLE) = BitAnd(pflags.prev, ANIMATABLE)

-----------------------------------------------------------------------------
\* C38 as stated: set_hidden(b) returns a value that is user-defined exactly
\* if the value it was called on was; set_user_defined(b) returns a value
\* that is hidden exactly if the value it was called on was; and
\* set_hidden(true) called on none() does not return what
\* set_user_defined(true) returns for none().
C38_user_defined_and_hidden_are_independent ==
    /\ pflags.op = "set_hidden" =>
          BitAnd(pflags.v, USER_DEFINED) = BitAnd(pflags.prev, USER_DEFINED)
    /\ pflags.op = "set_user_defined" =>
          BitAnd(pflags.v, HIDDEN) = BitAnd(pflags.prev, HIDDEN)
    /\ (pflags.op = "set_hidden" /\ pflags.b /\ pflags.prev = PropertyFlags_none) =>
          pflags.v # set_user_defined(PropertyFlags_none, TRUE)

-----------------------------------------------------------------------------
\* The cells of an NbPoseNodes child declare a count: a 32-bit integer that
\* is not negative.
ValidPoseCount(props) == Len(props) >= 1 /\ props[1].t = "I32" /\ props[1].a[1] >= 0

\* C39: a PoseLoader holds a count exactly if it holds a list of pose nodes.
\* While it holds none, a PoseNode child is skipped and changes nothing, and
\* only an NbPoseNodes child with a valid count changes the loader: it sets
\* the count and an empty list.  Once it holds a count, a PoseNode child is
\* handed to a PoseNodeLoader, an NbPoseNodes child changes nothing, the
\* count never changes and the list only grows at its end.  So the emitted
\* Pose has the pose nodes that came after the first valid NbPoseNodes child
\* and no other.
C39_pose_nodes_after_the_count_only ==
    [][ /\ \A i \in 1..Len(stack) :
              stack[i].kind = "Pose" =>
                 /\ stack[i].st.nb_pose_nodes.some <=> stack[i].st.pose_nodes.some
                 /\ (stack[i].st.nb_pose_nodes.some /\ Len(stack') >= i) =>
                       /\ stack'[i].st.nb_pose_nodes = stack[i].st.nb_pose_nodes
                       /\ Len(stack'[i].st.pose_nodes.v) >= Len(stack[i].st.pose_nodes.v)
                       /\ SubSeq(stack'[i].st.pose_nodes.v, 1, Len(stack[i].st.pose_nodes.v))
                             = stack[i].st.pose_nodes.v
        /\ \A node \in NodesFor("Pose") :
              (InLoad /\ Top.kind = "Pose" /\ load_StartNode(node))
              => LET st == Top.st
                     new == stack'[Len(stack)].st
                     skipped == stack' = stack \o <<Frame(SkipKind, rdepth + 1, nnodes, 1, <<>>)>>
                 IN /\ result' = "running"
                    /\ (node.name = "PoseNode" /\ ~st.nb_pose_nodes.some) => skipped
                    /\ (node.name = "PoseNode" /\ st.nb_pose_nodes.some) =>
                          /\ new = st
                          /\ stack'[Len(stack')].kind = "PoseNode"
                    /\ (node.name = "NbPoseNodes" /\ st.nb_pose_nodes.some) => skipped
                    /\ (node.name = "NbPoseNodes" /\ ~st.nb_pose_nodes.some) =>
                          IF ValidPoseCount(node.props)
                          THEN /\ new.nb_pose_nodes = Some(node.props[1].a[1])
                               /\ new.pose_nodes = Some(<<>>)
                          ELSE skipped
                    /\ node.name \notin {"PoseNode", "NbPoseNodes"} => skipped
      ]_vars

\* The loader held the count 1 and one pose node, read one more child, as a
\* second NbPoseNodes child, and its node ended: the Pose is in the store
\* with that one pose node.
C39_witness ==
    /\ Len(stack) = 1
    /\ nnodes = 3
    /\ ret.kind = "Pose"
    /\ 1 \in DOMAIN TheObjects.poses
    /\ Len(TheObjects.poses[1].pose_nodes) = 1
    /\ TheObjects.poses[1].pose_nodes[1].node = 2

-----------------------------------------------------------------------------
\* A layer element has an active array: its indices under IndexToDirect, its
\* data, if it has any, under Direct.
HasActiveArray(le) == le.reference_mode.tag = "IndexToDirect" \/ le.data.some

ActiveArray(le) ==
    IF le.reference_mode.tag = "IndexToDirect" THEN le.reference_mode.indices ELSE le.data.v

\* The active array of a ByPolygonVertex element has an entry for every
\* entry of the source index array, that of a ByPolygon element one for
\* every source polygon.
CoversSource(le, pvi) ==
    HasActiveArray(le) =>
        /\ le.mapping_mode = "ByPolygonVertex" => Len(ActiveArray(le)) >= Len(pvi)
        /\ le.mapping_mode = "ByPolygon" => Len(ActiveArray(le)) >= NumPolygons(pvi)

\* C40: a call of triangulate on a NotTriangulated mesh all of whose layer
\* elements cover the source returns without a panic; the index array is
\* then Triangulated and three times as long as there are triangles, the
\* active array of every ByPolygonVertex element is as long as the index
\* array, and that of every ByPolygon element as long as there are
\* triangles.
C40_lengths_after_triangulation ==
    (/\ tri.calls >= 1
     /\ before.polygon_vertex_index.tag = "NotTriangulated"
     /\ \A k \in 1..Len(LayerElementsOf(before)) :
           CoversSource(LayerElementsOf(before)[k], before.polygon_vertex_index.v))
    => /\ tri.ok
       /\ tri.info.some
       /\ mesh.polygon_vertex_index.tag = "Triangulated"
       /\ LET triangles == Len(tri.info.v.tri_poly_to_src_poly)
              index == mesh.polygon_vertex_index.v
          IN /\ Len(index) = 3 * triangles
             /\ Len(LayerElementsOf(mesh)) = Len(LayerElementsOf(before))
             /\ \A k \in 1..Len(LayerElementsOf(mesh)) :
                   LET le == LayerElementsOf(mesh)[k]
                   IN /\ le.mapping_mode = LayerElementsOf(before)[k].mapping_mode
                      /\ HasActiveArray(le) = HasActiveArray(LayerElementsOf(before)[k])
                      /\ (HasActiveArray(le) /\ le.mapping_mode = "ByPolygonVertex") =>
                            Len(ActiveArray(le)) = Len(index)
                      /\ (HasActiveArray(le) /\ le.mapping_mode = "ByPolygon") =>
                            Len(ActiveArray(le)) = triangles

\* A quad and a triangle with normals by polygon, materials by polygon and
\* UVs by polygon vertex: three triangles, nine indices, nine UV indices and
\* three normals.
C40_witness ==
    /\ tri.calls = 1
    /\ tri.ok
    /\ before.polygon_vertex_index = NotTriangulated(<<0, 1, 2, -4, 0, 1, -3>>)
    /\ Len(mesh.polygon_vertex_index.v) = 9
    /\ Len(mesh.layer_element_uvs) = 1
    /\ Len(mesh.layer_element_uvs[1].reference_mode.indices) = 9
    /\ mesh.layer_element_normals[1].mapping_mode = "ByPolygon"
    /\ mesh.layer_element_normals[1].reference_mode.tag = "Direct"
    /\ mesh.layer_element_normals[1].data.some
    /\ Len(before.layer_element_normals[1].data.v) = 2
    /\ Len(mesh.layer_element_normals[1].data.v) = 3
    /\ Len(mesh.layer_element_materials) = 1
    /\ Len(mesh.layer_element_materials[1].reference_mode.indices) = 3

====
